---- MODULE Spec2Model ----
(***************************************************************************)
(* CURB (Caleb University Resource Bank): the client-side Path Cache       *)
(* (js/cache.js), the cache-aware API client (DriveAPI.fetchPath), the     *)
(* application's refresh handling (js/app.js, js/renderer.js) and the      *)
(* remote browse gateway (api/browse.js).                                  *)
(*                                                                         *)
(* Text is modelled as a sequence of one-character strings, so that        *)
(* trimming, splitting and key building are computed as the code computes  *)
(* them.  Time is counted in hours (the code counts milliseconds).         *)
(***************************************************************************)
EXTENDS Integers, Sequences, FiniteSets, TLC

VARIABLES
    now,            \* Date.now() of the browser, in hours
    localStorage,   \* the browser's localStorage: key -> stored value
    loading,        \* DriveAPI.loading: cacheKey -> in-flight request
    reqs,           \* gateway requests issued by doFetch, in order of issue
    nCalls,         \* how many fetchPath calls have been made
    waiting,        \* the fetchPath calls suspended at `await fetchPromise`
    last,           \* what the latest step did, and the calls it made or settled
    hash,           \* window.location.hash without the leading '#'
    currentRoute,   \* Navigator.currentRoute
    gw,             \* the browse gateway: provider, server cache, request
    swCache         \* the service worker's cache of /api/ responses: URL -> payload

clientVars == <<now, localStorage, loading, reqs, nCalls, waiting, last, hash, currentRoute, swCache>>
vars == <<now, localStorage, loading, reqs, nCalls, waiting, last, hash, currentRoute, gw, swCache>>

----------------------------------------------------------------------------
(* Text helpers *)

\* JavaScript's \s, as far as the model's alphabet goes.
WS == {" ", "\t"}

Digits == {"0", "1", "2", "3", "4", "5", "6", "7", "8", "9"}

DigitVal(c) ==
    CASE c = "0" -> 0 [] c = "1" -> 1 [] c = "2" -> 2 [] c = "3" -> 3
      [] c = "4" -> 4 [] c = "5" -> 5 [] c = "6" -> 6 [] c = "7" -> 7
      [] c = "8" -> 8 [] c = "9" -> 9

\* s.replace(/c/g, r) for a one-character r
ReplaceChar(s, c, r) == [i \in 1..Len(s) |-> IF s[i] = c THEN r ELSE s[i]]

\* s.replace(/c/g, r) for a text r
RECURSIVE ReplaceAll(_, _, _)
ReplaceAll(s, c, r) ==
    IF s = <<>> THEN <<>>
    ELSE (IF Head(s) = c THEN r ELSE <<Head(s)>>) \o ReplaceAll(Tail(s), c, r)

\* s without its leading characters of the set cs
RECURSIVE StripLeading(_, _)
StripLeading(s, cs) ==
    IF s # <<>> /\ Head(s) \in cs THEN StripLeading(Tail(s), cs) ELSE s

\* s without its trailing characters of the set cs
RECURSIVE StripTrailing(_, _)
StripTrailing(s, cs) ==
    IF s # <<>> /\ s[Len(s)] \in cs
    THEN StripTrailing(SubSeq(s, 1, Len(s) - 1), cs)
    ELSE s

\* s.trim()
Trim(s) == StripTrailing(StripLeading(s, WS), WS)

\* s.replace(/\s+/g, ' ')
RECURSIVE CollapseWS(_)
CollapseWS(s) ==
    IF s = <<>> THEN <<>>
    ELSE IF Head(s) \in WS
         THEN <<" ">> \o CollapseWS(StripLeading(s, WS))
         ELSE <<Head(s)>> \o CollapseWS(Tail(s))

\* s.split(c): the pieces between the occurrences of c, empty pieces kept
RECURSIVE SplitOn(_, _, _)
SplitOn(s, c, cur) ==
    IF s = <<>> THEN <<cur>>
    ELSE IF Head(s) = c THEN <<cur>> \o SplitOn(Tail(s), c, <<>>)
         ELSE SplitOn(Tail(s), c, Append(cur, Head(s)))

Split(s, c) == SplitOn(s, c, <<>>)

\* parts.filter(p => p.length > 0)
RECURSIVE DropEmpty(_)
DropEmpty(parts) ==
    IF parts = <<>> THEN <<>>
    ELSE (IF Head(parts) # <<>> THEN <<Head(parts)>> ELSE <<>>) \o DropEmpty(Tail(parts))

\* a function with one more (or one changed) argument
Put(f, k, v) == [x \in (DOMAIN f) \cup {k} |-> IF x = k THEN v ELSE f[x]]

\* a function without some of its arguments
Drop(f, ks) == [x \in (DOMAIN f) \ ks |-> f[x]]

----------------------------------------------------------------------------
(* Bounds of the model *)

\* fetchPath calls in one behaviour
MaxCalls == 2

\* the instants, in hours, at which something happens: an entry written at
\* hour 0 is seen at the ages 6, 7, 24, 25, 168 and 169, on either side of
\* every threshold of the cache
Instants == {0, 6, 7, 24, 25, 168, 169}

----------------------------------------------------------------------------
(* PathCacheManager (js/cache.js) *)

storagePrefix == <<"c", "u", "r", "b", "_", "p", "a", "t", "h", "_">>

metaKey == <<"c", "u", "r", "b", "_", "c", "a", "c", "h", "e", "_", "m", "e", "t", "a">>

\* 6 * 60 * 60 * 1000 ms
defaultTTL == 6

\* 24 * 60 * 60 * 1000 ms
departmentTTL == 24

\* 24 * 60 * 60 * 1000 ms
defaultHardExpiry == 24

\* 7 * 24 * 60 * 60 * 1000 ms
departmentHardExpiry == 168

\* the characters of a content type, `${type}`
TypeText(type) ==
    IF type = "files" THEN <<"f", "i", "l", "e", "s">>
    ELSE <<"f", "o", "l", "d", "e", "r", "s">>

startsWith(key, prefix) ==
    Len(key) >= Len(prefix) /\ SubSeq(key, 1, Len(prefix)) = prefix

\* a variant of getKey that leaves the content type out of the key, which
\* C14 tells apart
getKeyOfPath(path, type) ==
    storagePrefix \o
    ReplaceAll(StripTrailing(StripLeading(path, {"/"}), {"/"}), "/", <<"_", "_">>)

getKey(path, type) ==
    LET normalizedPath ==
            ReplaceAll(StripTrailing(StripLeading(path, {"/"}), {"/"}), "/", <<"_", "_">>)
    IN  storagePrefix \o normalizedPath \o <<"_">> \o TypeText(type)

\* a variant of isStale that calls an entry stale at the soft threshold,
\* which C7 tells apart
isStaleAtThreshold(timestamp, path) ==
    LET age == now - timestamp
        ttl == IF path = <<"/">> \/ path = <<>> THEN departmentTTL ELSE defaultTTL
    IN  age >= ttl

isStale(timestamp, path) ==
    LET age == now - timestamp
        ttl == IF path = <<"/">> \/ path = <<>> THEN departmentTTL ELSE defaultTTL
    IN  age > ttl

\* a variant of isExpired with the root's hard threshold for every path,
\* which C1 tells apart
isExpiredRootThreshold(timestamp, path) ==
    now - timestamp > departmentHardExpiry

\* a variant of isExpired with the soft threshold of an ordinary path for
\* every path, which C28 tells apart
isExpiredSoftThreshold(timestamp, path) ==
    now - timestamp > defaultTTL

\* a variant of isExpired that calls an entry expired at the hard threshold,
\* which C13 tells apart
isExpiredAtThreshold(timestamp, path) ==
    LET age == now - timestamp
        hardExpiry == IF path = <<"/">> \/ path = <<>>
                      THEN departmentHardExpiry ELSE defaultHardExpiry
    IN  age >= hardExpiry

isExpired(timestamp, path) ==
    LET age == now - timestamp
        hardExpiry == IF path = <<"/">> \/ path = <<>>
                      THEN departmentHardExpiry ELSE defaultHardExpiry
    IN  age > hardExpiry

\* A stored value is what JSON.parse makes of its text: an entry (a record
\* with data, timestamp, path and type), or, for a value that set did not
\* write, [raw |-> t] where t is "garbage" (text that does not parse), "null"
\* (the text null) or "{}" (an object without the fields of an entry).
IsEntry(v) == "timestamp" \in DOMAIN v

\* JSON.parse(v) throws
ParseThrows(v) == ~IsEntry(v) /\ v.raw = "garbage"

\* JSON.parse(v) is null
ParsesToNull(v) == ~IsEntry(v) /\ v.raw = "null"

\* undefined, where a number is read
undefined == -1

\* get, reading the storage ls: found = FALSE stands for null
getFrom(ls, path, type) ==
    LET key == getKey(path, type) IN
    IF key \notin DOMAIN ls
    THEN [found |-> FALSE]
    ELSE IF ParseThrows(ls[key]) \/ ParsesToNull(ls[key])
    THEN \* JSON.parse throws, or reading a field of null does: the catch block
         [found |-> FALSE]
    ELSE IF ~IsEntry(ls[key])
    THEN \* every field is undefined, the age is NaN, and NaN > ttl is false
         [found |-> TRUE, data |-> undefined, timestamp |-> undefined,
          isStale |-> FALSE, isExpired |-> FALSE, age |-> undefined]
    ELSE LET cacheEntry == ls[key] IN
         [found |-> TRUE,
          data |-> cacheEntry.data,
          timestamp |-> cacheEntry.timestamp,
          isStale |-> isStale(cacheEntry.timestamp, cacheEntry.path),
          isExpired |-> isExpired(cacheEntry.timestamp, cacheEntry.path),
          age |-> now - cacheEntry.timestamp]

get(path, type) == getFrom(localStorage, path, type)

getMeta(ls) == IF metaKey \in DOMAIN ls THEN ls[metaKey] ELSE <<>>

\* updateMeta: the storages it may leave (its own setItem may throw, which it
\* catches)
updateMeta(ls, field) ==
    {Put(ls, metaKey, Put(getMeta(ls), field, now)), ls}

PathKeys(ls) == {k \in DOMAIN ls : startsWith(k, storagePrefix)}

\* clearOldestEntries: the storages it may leave (entries of equal timestamp
\* are ordered as the browser enumerates the keys)
clearOldestEntries(ls, count) ==
    LET keys == PathKeys(ls)
        \* parsed.timestamp || 0
        ts(k) == IF IsEntry(ls[k]) THEN ls[k].timestamp ELSE 0
        n == IF Cardinality(keys) < count THEN Cardinality(keys) ELSE count
        oldest == {R \in SUBSET keys :
                     /\ Cardinality(R) = n
                     /\ \A x \in R, y \in keys \ R : ts(x) <= ts(y)}
    IN  IF \E k \in keys : ParseThrows(ls[k]) \/ ParsesToNull(ls[k])
        THEN \* the loop throws before anything is removed; the error is caught
             {ls}
        ELSE {Drop(ls, R) : R \in oldest}

\* remove
remove(ls, path, type) == Drop(ls, {getKey(path, type)})

invalidatePath(ls, path) == remove(remove(ls, path, "folders"), path, "files")

\* a variant of clearAll that empties the storage, which C16 tells apart
clearAllKeys(ls) == updateMeta(<<>>, "lastCleared")

\* clearAll: the storages it may leave
clearAll(ls) == updateMeta(Drop(ls, PathKeys(ls)), "lastCleared")

\* set: the outcomes (storage left, value returned) it may have, as
\* localStorage.setItem accepts the write or throws
set(path, type, data) ==
    LET key == getKey(path, type)
        cacheEntry == [data |-> data, timestamp |-> now, path |-> path, type |-> type]
    IN  \* setItem accepts the write
        {[ls |-> m, ret |-> TRUE, via |-> "ok"]
            : m \in updateMeta(Put(localStorage, key, cacheEntry), "lastUpdated")}
        \cup
        \* setItem throws QuotaExceededError: evict, retry once
        UNION {{[ls |-> Put(e, key, cacheEntry), ret |-> TRUE, via |-> "retry"],
                [ls |-> e, ret |-> FALSE, via |-> "retryFailed"]}
                 : e \in clearOldestEntries(localStorage, 5)}
        \cup
        \* setItem throws another error
        {[ls |-> localStorage, ret |-> FALSE, via |-> "error"]}

----------------------------------------------------------------------------
(* DriveAPI (the lazy-loading client) *)

cacheKeyOf(path, type) == path \o <<":">> \o TypeText(type)

\* the age of what ls stores under the key of (path, type), -1 if nothing
AgeIn(ls, path, type) ==
    IF getKey(path, type) \in DOMAIN ls /\ IsEntry(ls[getKey(path, type)])
    THEN now - ls[getKey(path, type)].timestamp
    ELSE -1

AgeOfEntry(path, type) == AgeIn(localStorage, path, type)

\* doFetch is entered: a gateway request is issued
IssueRequest(path, type, kind, by) ==
    reqs' = Append(reqs, [path |-> path, type |-> type, kind |-> kind, by |-> by,
                          state |-> "pending"])

\* a variant of backgroundRefresh that issues no request, which C2 tells apart
backgroundRefreshIdle(path, type) == UNCHANGED reqs

\* backgroundRefresh
backgroundRefresh(path, type) == IssueRequest(path, type, "background", "backgroundRefresh")

\* the gateway requests for (path, type) that are in flight
InFlight(path, type) ==
    {r \in 1..Len(reqs) : /\ reqs[r].state = "pending"
                          /\ reqs[r].path = path
                          /\ reqs[r].type = type}

\* whether get finds, in ls, an entry for (path, type) that is not expired
ValidIn(ls, path, type) ==
    getFrom(ls, path, type).found /\ ~getFrom(ls, path, type).isExpired

HasValidEntry(path, type) == ValidIn(localStorage, path, type)

\* what a step leaves in `last`
Event(op, r, ret, cs) == [op |-> op, r |-> r, ret |-> ret, calls |-> cs]

\* fetchPath, up to its first await, called with the storage as the running
\* handler has left it (ls); `by` names the caller
fetchPathFrom(ls, path, type, forceRefresh, by) ==
    LET cacheKey == cacheKeyOf(path, type)
        cached == IF forceRefresh THEN [found |-> FALSE] ELSE getFrom(ls, path, type)
        id == Len(reqs) + 1
        w == [path |-> path, type |-> type, force |-> forceRefresh, by |-> by, req |-> 0]
        \* the call as seen from outside: what it found and what it did
        seen == [path |-> path, type |-> type, force |-> forceRefresh, by |-> by,
                 entryAge |-> AgeIn(ls, path, type),
                 inFlight |-> InFlight(path, type),
                 valid |-> ValidIn(ls, path, type),
                 state |-> "waiting", src |-> "gateway", req |-> 0, bg |-> 0,
                 data |-> 0]
    IN  /\ nCalls < MaxCalls
        /\ nCalls' = nCalls + 1
        /\ IF cached.found /\ ~cached.isExpired
           THEN /\ IF cached.isStale
                   THEN backgroundRefresh(path, type)
                   ELSE UNCHANGED reqs
                /\ last' = Event("fetchPath", IF cached.isStale THEN id ELSE 0, FALSE,
                                 {[seen EXCEPT !.state = "done", !.src = "cache",
                                               !.data = cached.data,
                                               !.bg = IF cached.isStale THEN id ELSE 0]})
                /\ UNCHANGED <<loading, waiting>>
           ELSE IF cacheKey \in DOMAIN loading
           THEN /\ waiting' = waiting \cup {[w EXCEPT !.req = loading[cacheKey]]}
                /\ last' = Event("fetchPath", 0, FALSE, {[seen EXCEPT !.req = loading[cacheKey]]})
                /\ UNCHANGED <<reqs, loading>>
           ELSE /\ IssueRequest(path, type, "blocking", by)
                /\ loading' = Put(loading, cacheKey, id)
                /\ waiting' = waiting \cup {[w EXCEPT !.req = id]}
                /\ last' = Event("fetchPath", id, FALSE, {[seen EXCEPT !.req = id]})
        /\ localStorage' = ls
        /\ UNCHANGED now

fetchPath(path, type, forceRefresh, by) ==
    fetchPathFrom(localStorage, path, type, forceRefresh, by)

\* the calls awaiting request r are settled: resolved with the payload of r,
\* or rejected with its error
SettleWith(r, op, ret, state, data) ==
    /\ last' = Event(op, r, ret,
                     {[path |-> c.path, type |-> c.type, force |-> c.force, by |-> c.by,
                       entryAge |-> AgeOfEntry(c.path, c.type),
                       inFlight |-> InFlight(c.path, c.type),
                       valid |-> HasValidEntry(c.path, c.type),
                       state |-> state, src |-> "gateway", req |-> r, bg |-> 0,
                       data |-> IF state = "done" THEN data ELSE 0]
                        : c \in {x \in waiting : x.req = r}})
    /\ waiting' = {x \in waiting : x.req # r}

\* the payload of a gateway response is named by its request
Settle(r, op, ret, state) == SettleWith(r, op, ret, state, r)

\* a variant of fetchPath's finally that leaves the in-flight table as it
\* is, which C26 tells apart
FinallyKeeps(r) == UNCHANGED loading

\* fetchPath's finally: a blocking request's key leaves the in-flight table
Finally(r) ==
    IF reqs[r].kind = "blocking"
    THEN loading' = Drop(loading, {cacheKeyOf(reqs[r].path, reqs[r].type)})
    ELSE UNCHANGED loading

\* doFetch resumes with a 200 response: the payload (named by its request) is
\* cached and returned
doFetchOk(r) ==
    /\ r \in 1..Len(reqs)
    /\ reqs[r].state = "pending"
    /\ \E o \in set(reqs[r].path, reqs[r].type, r) :
         /\ localStorage' = o.ls
         /\ Settle(r, "doFetchOk", o.ret, "done")
    /\ reqs' = [reqs EXCEPT ![r].state = "done"]
    /\ Finally(r)
    /\ UNCHANGED <<now, nCalls>>

\* doFetch resumes with a failure (network error or a response that is not
\* ok): it throws
doFetchFail(r) ==
    /\ r \in 1..Len(reqs)
    /\ reqs[r].state = "pending"
    /\ reqs' = [reqs EXCEPT ![r].state = "done"]
    /\ Settle(r, "doFetchFail", FALSE, "error")
    /\ Finally(r)
    /\ UNCHANGED <<now, nCalls, localStorage>>

\* the clock advances to a later instant
Tick(t) ==
    /\ t > now
    /\ now' = t
    /\ last' = Event("tick", 0, FALSE, {})
    /\ UNCHANGED <<localStorage, loading, reqs, nCalls, waiting>>

----------------------------------------------------------------------------
(* The API client on its own: any caller, any path *)

ClientPaths == {<<"/">>, <<"/", "a">>}

Types == {"folders", "files"}

\* the route of an empty hash; <<"null">> stands for null
HomeRoute == [view |-> "home", department |-> <<"null">>, level |-> <<"null">>,
              semester |-> <<"null">>, session |-> <<"null">>]

\* the gateway instance before its first request: an empty server cache
GwIdle == [pc |-> "idle", method |-> "", path |-> <<>>, type |-> "", segments |-> <<>>,
           i |-> 0, currentFolderId |-> 0, calls |-> 0, response |-> [status |-> 0],
           pathCache |-> <<>>, time |-> 1, nReq |-> 0, failed |-> FALSE]

Init ==
    /\ now = 0
    /\ localStorage = <<>>
    /\ loading = <<>>
    /\ reqs = <<>>
    /\ nCalls = 0
    /\ waiting = {}
    /\ last = Event("init", 0, FALSE, {})
    /\ hash = <<>>
    /\ currentRoute = HomeRoute
    /\ gw = GwIdle
    /\ swCache = <<>>

ApiFetch == \E path \in ClientPaths, type \in Types, forceRefresh \in BOOLEAN :
    /\ fetchPath(path, type, forceRefresh, "api")
    /\ UNCHANGED <<hash, currentRoute, gw, swCache>>

ApiOk == \E r \in 1..Len(reqs) :
    /\ doFetchOk(r)
    /\ UNCHANGED <<hash, currentRoute, gw, swCache>>

ApiFail == \E r \in 1..Len(reqs) :
    /\ doFetchFail(r)
    /\ UNCHANGED <<hash, currentRoute, gw, swCache>>

ClockTick == \E t \in Instants :
    /\ Tick(t)
    /\ UNCHANGED <<hash, currentRoute, gw, swCache>>

Next == ApiFetch \/ ApiOk \/ ApiFail \/ ClockTick

Spec == Init /\ [][Next]_vars


----------------------------------------------------------------------------
(* The thresholds as the specification states them, in hours *)

IsRootPath(path) == path = <<"/">> \/ path = <<>>

\* soft TTL: 6 hours, 24 hours for the root path
SoftTTLOf(path) == IF IsRootPath(path) THEN 24 ELSE 6

\* hard TTL: 24 hours, 7 days for the root path
HardTTLOf(path) == IF IsRootPath(path) THEN 7 * 24 ELSE 24

\* the step made was a fetchPath call without force refresh, the call c
UnforcedCall(ev, c) == ev.op = "fetchPath" /\ c \in ev.calls /\ ~c.force

----------------------------------------------------------------------------
(* C1 *)

\* C1: fetchPath without force refresh never returns a payload read from an
\* entry older than the hard TTL of its path (24 hours, 7 days for the root);
\* when the entry it finds is expired the call waits on a blocking gateway
\* request that is in flight, as it does on a miss.
C1_NeverServesExpired ==
    \A c \in last.calls : UnforcedCall(last, c) =>
        /\ c.src = "cache" => (c.entryAge >= 0 /\ c.entryAge <= HardTTLOf(c.path))
        /\ (c.entryAge > HardTTLOf(c.path) \/ c.entryAge < 0) =>
              /\ c.state = "waiting"
              /\ c.src = "gateway"
              /\ c.req \in 1..Len(reqs)
              /\ reqs[c.req].state = "pending"
              /\ reqs[c.req].kind = "blocking"
              /\ loading[cacheKeyOf(c.path, c.type)] = c.req

\* an unforced call found an expired entry and waits on the gateway
C1_Witness ==
    \E c \in last.calls :
        /\ UnforcedCall(last, c)
        /\ c.entryAge > HardTTLOf(c.path)
        /\ c.state = "waiting"

----------------------------------------------------------------------------
(* C2 *)

StaleNotExpiredAge(age, path) == age > SoftTTLOf(path) /\ age <= HardTTLOf(path)

\* a stale hit returns the cached payload at once and starts one background
\* request
SwrServes ==
    \A c \in last'.calls :
        (UnforcedCall(last', c) /\ StaleNotExpiredAge(AgeOfEntry(c.path, c.type), c.path)) =>
            /\ c.state = "done"
            /\ c.src = "cache"
            /\ c.data = localStorage[getKey(c.path, c.type)].data
            /\ reqs' = Append(reqs, [path |-> c.path, type |-> c.type,
                                     kind |-> "background", by |-> "backgroundRefresh",
                                     state |-> "pending"])
            /\ waiting' = waiting
            /\ localStorage' = localStorage

\* a failed background request reaches no caller and leaves the storage alone
SwrFailureSwallowed ==
    (last'.op = "doFetchFail" /\ reqs[last'.r].kind = "background") =>
        /\ last'.calls = {}
        /\ waiting' = waiting
        /\ localStorage' = localStorage

\* the entry of request r's key holds r's payload, written now
Overwritten(r) ==
    LET key == getKey(reqs[r].path, reqs[r].type) IN
    /\ key \in DOMAIN localStorage'
    /\ localStorage'[key].data = r
    /\ localStorage'[key].timestamp = now'

----------------------------------------------------------------------------
(* C3 *)

\* C3: a fetch called while a gateway request for the same (path, type) is in
\* flight waits on that request and issues none, so no key ever has two
\* requests in flight.
C3_Deduplicated ==
    /\ \A c \in last.calls : (last.op = "fetchPath" /\ c.inFlight # {}) =>
          /\ c.state = "waiting"
          /\ c.req \in c.inFlight
          /\ last.r = 0
    /\ \A i, j \in 1..Len(reqs) :
          (/\ i # j
           /\ reqs[i].state = "pending" /\ reqs[j].state = "pending"
           /\ reqs[i].path = reqs[j].path) => reqs[i].type # reqs[j].type

----------------------------------------------------------------------------
(* C4 *)

\* C4: a gateway error reaches a caller of fetch only when no entry that is
\* not expired exists for its (path, type); with such an entry, also on a
\* forced refresh, the caller gets the cached payload.
C4_ErrorOnlyWithoutFallback ==
    \A c \in last.calls : c.state = "error" => ~c.valid

----------------------------------------------------------------------------
(* C5 *)

\* C5: a fetch with force refresh does not read the cache and removes the
\* entries of its path before it issues the request, so that none written
\* before the refresh remains, whatever the outcome of the request.
C5_ForceInvalidatesFirst ==
    \A c \in last.calls : (c.force /\ last.op \in {"fetchPath", "doFetchFail"}) =>
        /\ c.src = "gateway"
        /\ ~get(c.path, "folders").found
        /\ ~get(c.path, "files").found

----------------------------------------------------------------------------
(* C7 *)

\* C7: when the entry for (path, type) is neither stale nor expired, an
\* unforced fetchPath returns its payload, issues no gateway request, blocking
\* or background, and leaves the entry as it is.
C7_FreshHitNoNetwork ==
    [][ \A c \in last'.calls :
          (/\ UnforcedCall(last', c)
           /\ AgeOfEntry(c.path, c.type) >= 0
           /\ AgeOfEntry(c.path, c.type) <= SoftTTLOf(c.path)) =>
             /\ c.state = "done"
             /\ c.src = "cache"
             /\ c.data = localStorage[getKey(c.path, c.type)].data
             /\ reqs' = reqs
             /\ loading' = loading
             /\ waiting' = waiting
             /\ localStorage' = localStorage ]_vars

\* an unforced call was served from an entry exactly as old as its soft TTL
C7_Witness ==
    \E c \in last.calls :
        /\ UnforcedCall(last, c)
        /\ c.entryAge = SoftTTLOf(c.path)
        /\ c.src = "cache"
        /\ c.bg = 0


----------------------------------------------------------------------------
(* A session that starts with an entry left by an earlier one *)

\* what set('/a', 'folders', payload 0) stored at hour 0
WarmStorage ==
    LET path == <<"/", "a">> IN
    Put(Put(<<>>, getKey(path, "folders"),
            [data |-> 0, timestamp |-> 0, path |-> path, type |-> "folders"]),
        metaKey, Put(<<>>, "lastUpdated", 0))

InitWarm ==
    /\ now = 0
    /\ localStorage = WarmStorage
    /\ loading = <<>>
    /\ reqs = <<>>
    /\ nCalls = 0
    /\ waiting = {}
    /\ last = Event("init", 0, FALSE, {})
    /\ hash = <<>>
    /\ currentRoute = HomeRoute
    /\ gw = GwIdle
    /\ swCache = <<>>

WarmSpec == InitWarm /\ [][Next]_vars

----------------------------------------------------------------------------
(* Navigator *)

\* null, as a route component
Null == <<"null">>

\* the text `${x}` of a route component
Interp(x) == IF x = Null THEN <<"n", "u", "l", "l">> ELSE x

\* undefined, as an argument
Undefined == <<"undefined">>

\* if (x), for a route component or a segment
Truthy(x) == x # Null /\ x # Undefined /\ x # <<>>

\* the escapes decodeURIComponent is given here: %20 %2F %7E %25
Unescape(a, b) ==
    CASE a = "2" /\ b = "0" -> " "
      [] a = "2" /\ b = "F" -> "/"
      [] a = "7" /\ b = "E" -> "~"
      [] a = "2" /\ b = "5" -> "%"
      [] OTHER -> "?"

\* whether decodeURIComponent throws URIError on s
RECURSIVE DecodeThrows(_)
DecodeThrows(s) ==
    IF s = <<>> THEN FALSE
    ELSE IF Head(s) = "%"
         THEN \/ Len(s) < 3
              \/ Unescape(s[2], s[3]) = "?"
              \/ DecodeThrows(SubSeq(s, 4, Len(s)))
         ELSE DecodeThrows(Tail(s))

RECURSIVE decodeURIComponent(_)
decodeURIComponent(s) ==
    IF s = <<>> THEN <<>>
    ELSE IF Head(s) = "%" /\ Len(s) >= 3
         THEN <<Unescape(s[2], s[3])>> \o decodeURIComponent(SubSeq(s, 4, Len(s)))
         ELSE <<Head(s)>> \o decodeURIComponent(Tail(s))

decodeSegment(segment) ==
    IF ~Truthy(segment) THEN <<>> ELSE decodeURIComponent(segment)

\* the characters encodeURIComponent leaves as they are, among those used
\* here: letters, digits and - _ . ! ~ * ' ( )
Escaped(c) ==
    CASE c = " " -> <<"%", "2", "0">>
      [] c = "/" -> <<"%", "2", "F">>
      [] c = "%" -> <<"%", "2", "5">>
      [] OTHER -> <<c>>

RECURSIVE encodeURIComponent(_)
encodeURIComponent(s) ==
    IF s = <<>> THEN <<>> ELSE Escaped(Head(s)) \o encodeURIComponent(Tail(s))

\* encodeSegment without the URI encoding
encodeSegmentRaw(segment) ==
    IF ~Truthy(segment) THEN <<>> ELSE ReplaceChar(segment, "/", "~")

encodeSegment(segment) ==
    IF ~Truthy(segment) THEN <<>>
    ELSE encodeURIComponent(ReplaceChar(segment, "/", "~"))

displayName(name) ==
    IF ~Truthy(name) THEN <<>> ELSE ReplaceChar(name, "~", "/")

SessionWords == {<<"S", "e", "s", "s", "i", "o", "n">>, <<"s", "e", "s", "s", "i", "o", "n">>}

\* the first index at or after i that holds no whitespace
RECURSIVE SkipWS(_, _)
SkipWS(s, i) == IF i <= Len(s) /\ s[i] \in WS THEN SkipWS(s, i + 1) ELSE i

\* where a match of /\/(\d{4})\/(\d{2})\s*(Session|session)/ that starts at i
\* ends (the index after it), 0 if there is none
LegacyMatchEnd(s, i) ==
    IF /\ i + 7 <= Len(s)
       /\ s[i] = "/"
       /\ \A k \in (i + 1)..(i + 4) : s[k] \in Digits
       /\ s[i + 5] = "/"
       /\ s[i + 6] \in Digits /\ s[i + 7] \in Digits
    THEN LET j == SkipWS(s, i + 8) IN
         IF j + 6 <= Len(s) /\ SubSeq(s, j, j + 6) \in SessionWords THEN j + 7 ELSE 0
    ELSE 0

\* hash.replace(/\/(\d{4})\/(\d{2})\s*(Session|session)/g, '/$1~$2 $3'), from i
RECURSIVE LegacyRewrite(_, _)
LegacyRewrite(s, i) ==
    IF i > Len(s) THEN <<>>
    ELSE LET e == LegacyMatchEnd(s, i) IN
         IF e > 0
         THEN <<"/">> \o SubSeq(s, i + 1, i + 4) \o <<"~">> \o SubSeq(s, i + 6, i + 7)
              \o <<" ">> \o SubSeq(s, e - 7, e - 1) \o LegacyRewrite(s, e)
         ELSE <<s[i]>> \o LegacyRewrite(s, i + 1)

\* s.toLowerCase() = 'about'
IsAbout(s) ==
    /\ Len(s) = 5
    /\ s[1] \in {"a", "A"} /\ s[2] \in {"b", "B"} /\ s[3] \in {"o", "O"}
    /\ s[4] \in {"u", "U"} /\ s[5] \in {"t", "T"}

Jupeb == <<"J", "u", "p", "e", "b">>

\* parseRoute, of the hash h (without its '#'); view "URIError" stands for
\* the exception decodeURIComponent throws
parseRoute(h) ==
    LET parts == DropEmpty(Split(LegacyRewrite(h, 1), "/"))
        n == Len(parts)
        route == [view |-> "home", department |-> Null, level |-> Null,
                  semester |-> Null, session |-> Null]
        dept == decodeSegment(parts[1])
        r1 == IF n >= 1
              THEN [route EXCEPT !.view = "levels", !.department = dept]
              ELSE route
        r2 == IF n >= 2
              THEN [r1 EXCEPT !.level = decodeSegment(parts[2]),
                              !.view = IF dept = Jupeb THEN "sessions" ELSE "semesters"]
              ELSE r1
        r3 == IF n >= 3
              THEN IF dept = Jupeb
                   THEN [r2 EXCEPT !.view = "files", !.session = decodeSegment(parts[3]),
                                   !.semester = Null]
                   ELSE [r2 EXCEPT !.view = "sessions", !.semester = decodeSegment(parts[3])]
              ELSE r2
        r4 == IF n >= 4
              THEN IF dept = Jupeb
                   THEN [r3 EXCEPT !.view = "files", !.session = decodeSegment(parts[3]),
                                   !.semester = Null]
                   ELSE [r3 EXCEPT !.view = "files", !.semester = decodeSegment(parts[3]),
                                   !.session = decodeSegment(parts[4])]
              ELSE r3
    IN  IF n = 1 /\ IsAbout(parts[1]) THEN [route EXCEPT !.view = "about"]
        ELSE IF \/ n >= 1 /\ DecodeThrows(parts[1])
                \/ \E k \in 2..n : k <= (IF dept = Jupeb THEN 3 ELSE 4) /\ DecodeThrows(parts[k])
             THEN [route EXCEPT !.view = "URIError"]
             ELSE r4

----------------------------------------------------------------------------
(* App and Renderer *)

\* the listing a view's renderer fetches: the path and the content type
\* (renderHome, renderLevels, renderSemesters, renderSessions, renderFiles)
RenderFetch(route) ==
    LET d == Interp(route.department)
        l == Interp(route.level)
        s == Interp(route.semester)
        x == Interp(route.session)
    IN  CASE route.view = "home" -> [path |-> <<"/">>, type |-> "folders"]
          [] route.view = "levels" -> [path |-> <<"/">> \o d, type |-> "folders"]
          [] route.view = "semesters" ->
                [path |-> <<"/">> \o d \o <<"/">> \o l, type |-> "folders"]
          [] route.view = "sessions" ->
                IF route.department = Jupeb
                THEN [path |-> <<"/">> \o d \o <<"/">> \o l, type |-> "folders"]
                ELSE [path |-> <<"/">> \o d \o <<"/">> \o l \o <<"/">> \o s,
                      type |-> "folders"]
          [] route.view = "files" ->
                IF route.department = Jupeb
                THEN [path |-> <<"/">> \o d \o <<"/">> \o l \o <<"/">> \o x,
                      type |-> "files"]
                ELSE [path |-> <<"/">> \o d \o <<"/">> \o l \o <<"/">> \o s \o <<"/">> \o x,
                      type |-> "files"]

ListingViews == {"home", "levels", "semesters", "sessions", "files"}

\* handleRouteChange on the route, with the storage as the running handler
\* has left it: the view's renderer runs up to its fetch
handleRouteChange(ls, route, by) ==
    IF route.view \in ListingViews
    THEN fetchPathFrom(ls, RenderFetch(route).path, RenderFetch(route).type, FALSE, by)
    ELSE /\ localStorage' = ls
         /\ last' = Event(by, 0, FALSE, {})
         /\ UNCHANGED <<now, loading, reqs, nCalls, waiting>>

\* the path handleRefresh invalidates
RefreshPath(route) ==
    IF ~Truthy(route.department) THEN <<>>
    ELSE <<"/">> \o Interp(route.department) \o
         (IF ~Truthy(route.level) THEN <<>>
          ELSE <<"/">> \o Interp(route.level) \o
               (IF ~Truthy(route.semester) THEN <<>>
                ELSE <<"/">> \o Interp(route.semester) \o
                     (IF ~Truthy(route.session) THEN <<>>
                      ELSE <<"/">> \o Interp(route.session))))

\* handleRefresh: the refresh button
handleRefresh ==
    LET route == currentRoute
        currentPath == RefreshPath(route)
        ls == IF currentPath # <<>> THEN invalidatePath(localStorage, currentPath)
              ELSE localStorage
    IN  /\ handleRouteChange(ls, route, "refresh")
        /\ UNCHANGED <<hash, currentRoute>>

\* navigateTo, and the hash changes made by a link or the address bar
navigateTo(path) ==
    /\ hash' = path
    /\ currentRoute' = parseRoute(path)
    /\ parseRoute(path).view # "URIError"
    /\ handleRouteChange(localStorage, parseRoute(path), "navigate")

\* the hashes of the application's views: standard and Jupeb hierarchies
AppHashes ==
    { <<>>,
      <<"/", "a">>,
      <<"/", "a", "/", "1">>,
      <<"/", "a", "/", "1", "/", "s">>,
      <<"/", "a", "/", "1", "/", "s", "/", "x">>,
      <<"/">> \o Jupeb,
      <<"/">> \o Jupeb \o <<"/", "A">>,
      <<"/">> \o Jupeb \o <<"/", "A", "/", "x">>,
      <<"/", "a", "b", "o", "u", "t">> }

AppNavigate == \E h \in AppHashes :
    /\ navigateTo(h)
    /\ UNCHANGED <<gw, swCache>>

AppRefresh ==
    /\ handleRefresh
    /\ UNCHANGED <<gw, swCache>>

AppNext == AppNavigate \/ AppRefresh \/ ApiOk \/ ApiFail \/ ClockTick

AppSpec == Init /\ [][AppNext]_vars

----------------------------------------------------------------------------
(* C6 *)

\* C6: when the user refreshes a view that shows a listing, the entry its
\* renderer reads is deleted before the view is rendered again: the renderer
\* finds no entry and takes the listing from the gateway.
C6_RefreshBypassesCache ==
    \A c \in last.calls : c.by = "refresh" =>
        (last.op = "fetchPath" => c.entryAge < 0 /\ c.src = "gateway")


----------------------------------------------------------------------------
(* The browse gateway: api/browse.js.  Its clock counts minutes. *)

\* requests handled by the gateway in one behaviour
MaxRequests == 2

\* the gateway's clock: entries written at 1 are 29, 30 minutes old at 30, 31
GwInstants == {1, 30, 31}

CACHE_TTL == 30

\* a variant of normalizeFolderName that only trims, which C10 tells apart
normalizeTrimOnly(name) == Trim(name)

normalizeFolderName(name) ==
    IF name = <<>> THEN name ELSE CollapseWS(Trim(name))

rootFolderId == 0

\* the provider's folders: id, name and parent, in the order it lists them
DriveFolders == <<
    [id |-> 1, parent |-> 0, name |-> <<"C", " ", " ", "S", " ">>],
    [id |-> 2, parent |-> 0, name |-> <<"J", "u", "p", "e", "b">>],
    [id |-> 3, parent |-> 0, name |-> <<"N", "u", "r", "s", "i", "n", "g">>],
    [id |-> 11, parent |-> 1, name |-> <<"1", "0", "0", " ", "L", "e", "v", "e", "l">>],
    [id |-> 12, parent |-> 1, name |-> <<"1", "0", "0", " ", " ", "L", "e", "v", "e", "l">>],
    [id |-> 13, parent |-> 1, name |-> <<"2", "0", "2", "4", " ", "1", "0", "0", " ", "L", "e", "v", "e", "l">>],
    [id |-> 14, parent |-> 1, name |-> <<"5", "0", "0", " ", "L", "e", "v", "e", "l">>],
    [id |-> 15, parent |-> 1, name |-> <<"A", "r", "t">>],
    [id |-> 16, parent |-> 1, name |-> <<"0", "2", "0", "0", "L">>],
    [id |-> 21, parent |-> 2, name |-> <<"A", "r", "t">>],
    [id |-> 22, parent |-> 2, name |-> <<"S", "c", "i", "e", "n", "c", "e", " ">>],
    [id |-> 23, parent |-> 2, name |-> <<"M", "a", "t", "h", "s">>],
    [id |-> 24, parent |-> 2, name |-> <<"1", "0", "0", " ", "L", "e", "v", "e", "l">>],
    [id |-> 31, parent |-> 3, name |-> <<"1", "0", "0", " ", "L", "e", "v", "e", "l">>],
    [id |-> 32, parent |-> 3, name |-> <<"3", "0", "0", " ", "L", "e", "v", "e", "l">>],
    [id |-> 111, parent |-> 11, name |-> <<"1", "s", "t", " ", "S", "e", "m", "e", "s", "t", "e", "r">>],
    [id |-> 112, parent |-> 11, name |-> <<"7", " ", "E", "x", "t", "r", "a", "s">>],
    [id |-> 121, parent |-> 12, name |-> <<"2", "n", "d", " ", "S", "e", "m", "e", "s", "t", "e", "r">>],
    [id |-> 1111, parent |-> 111, name |-> <<"2", "0", "2", "4", "/", "2", "5", " ", "S", "e", "s", "s", "i", "o", "n">>] >>

\* the provider's PDF files
DriveFiles == <<
    [id |-> 9001, parent |-> 1111, name |-> <<"q", "1", ".", "p", "d", "f">>],
    [id |-> 9002, parent |-> 1111, name |-> <<"q", "2", ".", "p", "d", "f">>],
    [id |-> 9003, parent |-> 21, name |-> <<"a", ".", "p", "d", "f">>] >>

\* the folders the provider lists for a parent
listFolders(folderId) ==
    SelectSeq(DriveFolders, LAMBDA f : f.parent = folderId)

listFiles(folderId) ==
    SelectSeq(DriveFiles, LAMBDA f : f.parent = folderId)

\* no folder: the null findFolderByName returns
NoFolder == [id |-> -1, parent |-> -1, name |-> <<>>]

\* a variant of findFolderByName that falls back on the first folder listed,
\* which C8 tells apart
findFolderOrFirst(folders, folderName) ==
    LET normalizedTarget == CollapseWS(Trim(ReplaceChar(folderName, "~", "/")))
        hits == SelectSeq(folders, LAMBDA f : CollapseWS(Trim(f.name)) = normalizedTarget)
    IN  IF hits # <<>> THEN Head(hits)
        ELSE IF folders # <<>> THEN Head(folders)
        ELSE [id |-> -1, parent |-> -1, name |-> <<>>]

\* folders.find(f => normalizeFolderName(f.name) === normalizedTarget) || null
findFolderByName(folders, folderName) ==
    LET normalizedTarget == normalizeFolderName(ReplaceChar(folderName, "~", "/"))
        hits == SelectSeq(folders, LAMBDA f : normalizeFolderName(f.name) = normalizedTarget)
    IN  IF hits = <<>> THEN NoFolder ELSE Head(hits)

getCacheKey(path) == <<"p", "a", "t", "h", ":">> \o path

\* a variant of isCacheValid that accepts an entry aged CACHE_TTL, which C17
\* tells apart
isCacheValidInclusive(cached, time) ==
    cached.timestamp # 0 /\ (time - cached.timestamp) <= CACHE_TTL

isCacheValid(cached, time) ==
    cached.timestamp # 0 /\ (time - cached.timestamp) < CACHE_TTL

\* getCached: whether it returns an entry, and the cache it leaves
getCached(cache, path, time) ==
    LET key == getCacheKey(path) IN
    IF key \in DOMAIN cache /\ isCacheValid(cache[key], time)
    THEN [hit |-> TRUE, cached |-> cache[key], cache |-> cache]
    ELSE [hit |-> FALSE, cached |-> [data |-> <<>>, timestamp |-> 0],
          cache |-> Drop(cache, {key})]

setCache(cache, path, data, time) ==
    Put(cache, getCacheKey(path), [data |-> data, timestamp |-> time])

\* the allowed levels: the numbers and the texts of a list
LEVEL_EXCEPTIONS ==
    Put(Put(Put(Put(Put(Put(<<>>,
        <<"H", "u", "m", "a", "n", " ", "A", "n", "a", "t", "o", "m", "y">>, [nums |-> {100}, texts |-> {}]),
        <<"H", "u", "m", "a", "n", " ", "P", "h", "y", "s", "i", "o", "l", "o", "g", "y">>, [nums |-> {100}, texts |-> {}]),
        <<"S", "o", "f", "t", "w", "a", "r", "e", " ", "E", "n", "g", "i", "n", "e", "e", "r", "i", "n", "g">>, [nums |-> {100}, texts |-> {}]),
        <<"M", "L", "S">>, [nums |-> {100}, texts |-> {}]),
        <<"N", "u", "r", "s", "i", "n", "g">>, [nums |-> {100, 200}, texts |-> {}]),
        <<"J", "u", "p", "e", "b">>, [nums |-> {}, texts |-> {<<"A", "r", "t">>, <<"B", "u", "s", "i", "n", "e", "s", "s">>, <<"S", "c", "i", "e", "n", "c", "e">>}])

DEFAULT_LEVELS == [nums |-> {100, 200, 300, 400}, texts |-> {}]

\* the digits s starts with
RECURSIVE LeadingDigits(_)
LeadingDigits(s) ==
    IF s # <<>> /\ Head(s) \in Digits THEN <<Head(s)>> \o LeadingDigits(Tail(s)) ELSE <<>>

\* name.match(/(\d+)/): the first run of digits, <<>> when there is none
RECURSIVE levelMatch(_)
levelMatch(name) ==
    IF name = <<>> THEN <<>>
    ELSE IF Head(name) \in Digits THEN LeadingDigits(name) ELSE levelMatch(Tail(name))

\* parseInt of a run of digits
RECURSIVE parseInt(_)
parseInt(ds) ==
    IF ds = <<>> THEN 0 ELSE 10 * parseInt(SubSeq(ds, 1, Len(ds) - 1)) + DigitVal(ds[Len(ds)])

\* a variant of levelFilter that knows the default levels only, which C9
\* tells apart
levelFilterDefault(segments, data) ==
    SelectSeq(data, LAMBDA f :
        IF levelMatch(f.name) # <<>>
        THEN parseInt(levelMatch(f.name)) \in DEFAULT_LEVELS.nums
        ELSE f.name \in DEFAULT_LEVELS.texts)

\* the filter of the department level
levelFilter(segments, data) ==
    LET deptName == normalizeFolderName(segments[1])
        validLevels == IF deptName \in DOMAIN LEVEL_EXCEPTIONS
                       THEN LEVEL_EXCEPTIONS[deptName] ELSE DEFAULT_LEVELS
    IN  SelectSeq(data, LAMBDA f :
            IF levelMatch(f.name) # <<>>
            THEN parseInt(levelMatch(f.name)) \in validLevels.nums
            ELSE f.name \in validLevels.texts)

\* the listing of the resolved folder
listingData(type, segments, currentFolderId) ==
    IF type = "files"
    THEN listFiles(currentFolderId)
    ELSE LET folders == listFolders(currentFolderId)
             data == [k \in 1..Len(folders) |->
                         [id |-> folders[k].id, name |-> normalizeFolderName(folders[k].name)]]
         IN  IF Len(segments) = 1 THEN levelFilter(segments, data) ELSE data


\* a variant of methodGate that serves every method but OPTIONS, which C19
\* tells apart
methodGateLax(method) == IF method = "OPTIONS" THEN "preflight" ELSE "serve"

\* the handler's treatment of the HTTP method
methodGate(method) ==
    IF method = "OPTIONS" THEN "preflight"
    ELSE IF method # "GET" THEN "reject"
    ELSE "serve"

\* the handler up to its first provider call
handler(method, env, queryPath, queryType) ==
    LET path == IF queryPath = <<>> THEN <<"/">> ELSE queryPath
        type == IF queryType = "" THEN "folders" ELSE queryType
        cacheKey == path \o <<":">> \o TypeText(type)
        c == getCached(gw.pathCache, cacheKey, gw.time)
        segments == DropEmpty(Split(path, "/"))
        req == [gw EXCEPT !.method = method, !.path = path, !.type = type,
                          !.segments = <<>>, !.i = 0, !.currentFolderId = rootFolderId,
                          !.calls = 0, !.nReq = @ + 1, !.pc = "done", !.failed = FALSE]
    IN  /\ gw.pc \in {"idle", "done"}
        /\ gw.nReq < MaxRequests
        /\ gw' =
            IF methodGate(method) = "preflight"
            THEN [req EXCEPT !.response = [status |-> 200]]
            ELSE IF methodGate(method) = "reject"
            THEN [req EXCEPT !.response = [status |-> 405, error |-> "Method not allowed"]]
            ELSE IF ~env
            THEN [req EXCEPT !.response = [status |-> 500,
                                           error |-> "Server configuration error"]]
            ELSE IF c.hit
            THEN [req EXCEPT !.response = [status |-> 200, path |-> path, type |-> type,
                                           data |-> c.cached.data, cached |-> TRUE,
                                           timestamp |-> c.cached.timestamp,
                                           xCache |-> "HIT"]]
            ELSE [req EXCEPT !.pathCache = c.cache, !.segments = segments,
                             !.response = [status |-> 0],
                             !.i = IF segments = <<>> THEN 0 ELSE 1,
                             !.pc = IF segments = <<>> THEN "list" ELSE "walk"]

\* a variant of the walk that finds, under a department, only the children
\* the department's listing shows, which C29 tells apart
walkStepListed ==
    LET segment == gw.segments[gw.i]
        children == listFolders(gw.currentFolderId)
        shown == IF gw.i = 2
                 THEN SelectSeq(children, LAMBDA f :
                          levelFilter(<<gw.segments[1]>>,
                                      <<[id |-> f.id, name |-> normalizeFolderName(f.name)]>>) # <<>>)
                 ELSE children
        folder == findFolderByName(shown, segment)
    IN  /\ gw.pc = "walk"
        /\ gw' =
            IF folder = NoFolder
            THEN [gw EXCEPT !.calls = @ + 1, !.pc = "done",
                            !.response = [status |-> 404, error |-> "Path not found",
                                          segment |-> segment, path |-> gw.path]]
            ELSE [gw EXCEPT !.calls = @ + 1, !.currentFolderId = folder.id,
                            !.i = IF gw.i = Len(gw.segments) THEN @ ELSE @ + 1,
                            !.pc = IF gw.i = Len(gw.segments) THEN "list" ELSE "walk"]

\* one turn of the path walk: findFolderByName answers for segment i
walkStep ==
    LET segment == gw.segments[gw.i]
        folder == findFolderByName(listFolders(gw.currentFolderId), segment)
    IN  /\ gw.pc = "walk"
        /\ gw' =
            IF folder = NoFolder
            THEN [gw EXCEPT !.calls = @ + 1, !.pc = "done",
                            !.response = [status |-> 404, error |-> "Path not found",
                                          segment |-> segment, path |-> gw.path]]
            ELSE [gw EXCEPT !.calls = @ + 1, !.currentFolderId = folder.id,
                            !.i = IF gw.i = Len(gw.segments) THEN @ ELSE @ + 1,
                            !.pc = IF gw.i = Len(gw.segments) THEN "list" ELSE "walk"]

\* the listing is fetched, cached and returned
listStep ==
    LET data == listingData(gw.type, gw.segments, gw.currentFolderId)
        cacheKey == gw.path \o <<":">> \o TypeText(gw.type)
    IN  /\ gw.pc = "list"
        /\ gw' = [gw EXCEPT !.calls = @ + 1, !.pc = "done",
                            !.pathCache = setCache(gw.pathCache, cacheKey, data, gw.time),
                            !.response = [status |-> 200, path |-> gw.path, type |-> gw.type,
                                          data |-> data, cached |-> FALSE,
                                          timestamp |-> gw.time, xCache |-> "MISS"]]

\* a variant of providerError that answers as for a folder that is not
\* found, which C18 tells apart
providerErrorNotFound ==
    /\ gw.pc \in {"walk", "list"}
    /\ gw' = [gw EXCEPT !.calls = @ + 1, !.pc = "done", !.failed = TRUE,
                        !.response = [status |-> 404, error |-> "Path not found",
                                      segment |-> <<>>, path |-> gw.path]]

\* the provider call of the walk or of the listing fails: the catch block
providerError ==
    /\ gw.pc \in {"walk", "list"}
    /\ gw' = [gw EXCEPT !.calls = @ + 1, !.pc = "done", !.failed = TRUE,
                        !.response = [status |-> 500, error |-> "Failed to fetch data"]]

\* the requests: path and type of the query
GwQueries == {
    [path |-> <<>>, type |-> ""],
    [path |-> <<"/">>, type |-> "folders"],
    [path |-> <<"/", "C", " ", "S">>, type |-> "folders"],
    [path |-> <<"/", "J", "u", "p", "e", "b">>, type |-> ""],
    [path |-> <<"/", "N", "u", "r", "s", "i", "n", "g", " ">>, type |-> "folders"],
    [path |-> <<"/", "N", "u", "r", "s", "i", "n", "g", "/", "1", "0", "0", " ", "L", "e", "v", "e", "l">>, type |-> "folders"],
    [path |-> <<"/", "C", " ", "S", "/", "1", "0", "0", " ", "L", "e", "v", "e", "l">>, type |-> "folders"],
    [path |-> <<"/", "C", " ", "S", "/", "1", "0", "0", " ", " ", "L", "e", "v", "e", "l", "/", "1", "s", "t", " ", "S", "e", "m", "e", "s", "t", "e", "r">>, type |-> "folders"],
    [path |-> <<"/", "C", " ", "S", "/", "1", "0", "0", " ", "L", "e", "v", "e", "l", "/", "1", "s", "t", " ", "S", "e", "m", "e", "s", "t", "e", "r", "/", "2", "0", "2", "4", "~", "2", "5", " ", "S", "e", "s", "s", "i", "o", "n">>, type |-> "files"],
    [path |-> <<"/", "C", " ", "S", "/", "1", "0", "0", " ", "L", "e", "v", "e", "l", "/", "1", "s", "t", " ", "S", "e", "m", "e", "s", "t", "e", "r", "/", "2", "0", "2", "4", "/", "2", "5", " ", "S", "e", "s", "s", "i", "o", "n">>, type |-> "files"],
    [path |-> <<"/", "L", "a", "w", "/", "1", "0", "0", " ", "L", "e", "v", "e", "l">>, type |-> "folders"],
    [path |-> <<"/", "J", "u", "p", "e", "b", "/", "A", "r", "t">>, type |-> "files"],
    [path |-> <<"/", "N", "u", "r", "s", "i", "n", "g", "/", "3", "0", "0", " ", "L", "e", "v", "e", "l">>, type |-> "folders"],
    [path |-> <<"/", "J", "u", "p", "e", "b", "/", "M", "a", "t", "h", "s">>, type |-> "files"] }

GwRequest == \E q \in GwQueries, method \in {"GET", "POST", "OPTIONS"}, env \in BOOLEAN :
    /\ handler(method, env, q.path, q.type)
    /\ UNCHANGED clientVars

GwWalk == walkStep /\ UNCHANGED clientVars

GwList == listStep /\ UNCHANGED clientVars

GwProviderError == providerError /\ UNCHANGED clientVars

GwTick == \E t \in GwInstants :
    /\ t > gw.time
    /\ gw' = [gw EXCEPT !.time = t]
    /\ UNCHANGED clientVars

GatewayNext == GwRequest \/ GwWalk \/ GwList \/ GwProviderError \/ GwTick

GatewaySpec == Init /\ [][GatewayNext]_vars


----------------------------------------------------------------------------
(* C8, C9, C10: the statements' own terms *)

\* normalize: trim, and collapse each run of whitespace to one space
SpecNormalize(s) == CollapseWS(Trim(s))

\* the segment s matches the provider folder c
SpecMatches(s, c) == SpecNormalize(ReplaceChar(s, "~", "/")) = SpecNormalize(c.name)

\* the provider's folders under a parent
ChildrenOf(id) == {DriveFolders[k] : k \in {j \in 1..Len(DriveFolders) : DriveFolders[j].parent = id}}

\* whether each segment in turn has a matching child
RECURSIVE Resolvable(_, _)
Resolvable(segs, id) ==
    \/ segs = <<>>
    \/ \E c \in ChildrenOf(id) : SpecMatches(Head(segs), c) /\ Resolvable(Tail(segs), c.id)

\* an answer of the walk or of the listing, not of the server cache
Answered(status) ==
    /\ gw.pc = "done"
    /\ gw.method = "GET"
    /\ gw.response.status = status
    /\ gw.segments # <<>> \/ gw.calls > 0

\* C8: a request whose walk finds no matching child for a segment ends with
\* 404 'Path not found' naming that segment and the full path; the provider
\* calls made are those of the segments up to it, the server cache holds
\* nothing for the request, and a 200 answer is given only for a path each
\* of whose segments has a matching child.
C8_NotFound ==
    /\ Answered(404) =>
          /\ gw.response.error = "Path not found"
          /\ gw.response.segment = gw.segments[gw.i]
          /\ gw.response.path = gw.path
          /\ \A c \in ChildrenOf(gw.currentFolderId) : ~SpecMatches(gw.segments[gw.i], c)
          /\ gw.calls = gw.i
          /\ getCacheKey(gw.path \o <<":">> \o TypeText(gw.type)) \notin DOMAIN gw.pathCache
    /\ Answered(200) => Resolvable(gw.segments, rootFolderId)

\* a 404 at a segment that is not the last of its path
C8_Witness ==
    /\ Answered(404)
    /\ gw.i < Len(gw.segments)
    /\ gw.calls = gw.i

\* the values of the runs of digits of a name
RECURSIVE EmbeddedNumbers(_, _, _)
EmbeddedNumbers(s, acc, in) ==
    IF s = <<>> THEN (IF in THEN {acc} ELSE {})
    ELSE IF Head(s) \in Digits
         THEN EmbeddedNumbers(Tail(s), 10 * (IF in THEN acc ELSE 0) + DigitVal(Head(s)), TRUE)
         ELSE (IF in THEN {acc} ELSE {}) \cup EmbeddedNumbers(Tail(s), 0, FALSE)

\* the value of the first run of digits of a name, -1 when it has no digit
RECURSIVE FirstNumber(_, _, _)
FirstNumber(s, acc, in) ==
    IF s = <<>> THEN (IF in THEN acc ELSE -1)
    ELSE IF Head(s) \in Digits
         THEN FirstNumber(Tail(s), 10 * acc + DigitVal(Head(s)), TRUE)
         ELSE IF in THEN acc ELSE FirstNumber(Tail(s), 0, FALSE)

\* the allow-list of a department
AllowList(dept) ==
    IF SpecNormalize(dept) \in DOMAIN LEVEL_EXCEPTIONS
    THEN LEVEL_EXCEPTIONS[SpecNormalize(dept)] ELSE DEFAULT_LEVELS

\* the ids of a 200 folder listing, and of the children kept by a test
ListedIds == {gw.response.data[k].id : k \in 1..Len(gw.response.data)}

KeptIds(Keep(_)) ==
    {c.id : c \in {x \in ChildrenOf(gw.currentFolderId) :
                      Len(gw.segments) # 1 \/ Keep(SpecNormalize(x.name))}}

FolderListing == Answered(200) /\ gw.type # "files"

\* C9 as it is stated: at one segment a child is listed iff some embedded
\* number of its name is an allowed level or its name is an allowed text
C9_AsStated ==
    FolderListing =>
        ListedIds = KeptIds(LAMBDA n :
            \/ EmbeddedNumbers(n, 0, FALSE) \cap AllowList(gw.segments[1]).nums # {}
            \/ n \in AllowList(gw.segments[1]).texts)

\* C9: for a folders request of exactly one segment a child is listed iff
\* the first run of digits of its normalized name, read as a number, is an
\* allowed level, or the name has no digit and equals an allowed text; with
\* no segment or with two or more every child is listed.
C9_LevelFilter ==
    FolderListing =>
        ListedIds = KeptIds(LAMBDA n :
            \/ FirstNumber(n, 0, FALSE) \in AllowList(gw.segments[1]).nums
            \/ FirstNumber(n, 0, FALSE) = -1 /\ n \in AllowList(gw.segments[1]).texts)

\* the listing of a department whose folder holds allowed levels, a level
\* that is not allowed, a text, and a name of two numbers
C9_Witness ==
    /\ FolderListing
    /\ gw.segments = <<<<"C", " ", "S">>>>
    /\ ListedIds = {11, 12, 16}

\* the child the walk has just resolved its segment to, if any
ResolvedTo(c) == gw'.pc \in {"walk", "list"} /\ gw'.currentFolderId = c.id

\* a turn of the walk that the provider answers
WalkAnswered ==
    /\ gw.pc = "walk"
    /\ gw'.calls = gw.calls + 1
    /\ gw'.pc = "done" => gw'.response.status = 404

\* C10 as it is stated: a segment resolves to a child exactly when their
\* normalized texts are equal
C10_AsStated ==
    [][WalkAnswered =>
          \A c \in ChildrenOf(gw.currentFolderId) :
              ResolvedTo(c) <=> SpecMatches(gw.segments[gw.i], c)]_vars

\* C10: a segment resolves to the first child, in the provider's order,
\* whose normalized name equals the normalized segment with each '~' read
\* as '/'; it resolves to no child when none is equal; and no segment holds
\* a '/'.
C10_SegmentMatching ==
    [][WalkAnswered =>
          LET folders == listFolders(gw.currentFolderId) IN
          /\ \A k \in 1..Len(folders) :
                ResolvedTo(folders[k]) <=>
                    /\ SpecMatches(gw.segments[gw.i], folders[k])
                    /\ \A j \in 1..(k - 1) : ~SpecMatches(gw.segments[gw.i], folders[j])
          /\ \A k \in 1..Len(gw.segments) :
                \A j \in 1..Len(gw.segments[k]) : gw.segments[k][j] # "/"]_vars

\* the folder '2024/25 Session' is reached through 'C  S ' by the segments
\* 'C S' and '2024~25 Session'
C10_Witness ==
    /\ gw.pc = "list"
    /\ gw.currentFolderId = 1111
    /\ gw.segments[1] = <<"C", " ", "S">>
    /\ gw.segments[4] = <<"2", "0", "2", "4", "~", "2", "5", " ", "S", "e", "s", "s", "i", "o", "n">>


----------------------------------------------------------------------------
(* The Path Cache on its own: any caller of PathCacheManager, a storage
   that other scripts and earlier sessions have written to *)

\* operations that change the storage, in one behaviour
MaxCacheOps == 2

\* the instants, in hours: the entries of the earlier session were written
\* at the hours 0 to 5, the session starts at 6
CacheInstants == {6, 7}

\* '/a/b' and '/a__b' are two paths of one key
CachePaths == {<<"/", "a">>, <<"/", "a", "/", "b">>, <<"/", "a", "_", "_", "b">>}

\* the payloads written
CacheData == {7, 8}

\* keys of the same origin that the Path Cache does not own
ForeignStorage ==
    Put(Put(<<>>, <<"a", "p", "p", "_", "v", "e", "r", "s", "i", "o", "n">>, [raw |-> "v2"]), <<"t", "h", "e", "m", "e">>, [raw |-> "dark"])

\* the entry set(path, type, data) wrote at the hour t
StoredEntry(ls, path, type, data, t) ==
    Put(ls, getKey(path, type), [data |-> data, timestamp |-> t, path |-> path, type |-> type])

\* what an earlier session left: six entries, written one an hour
FullStorage ==
    StoredEntry(StoredEntry(StoredEntry(StoredEntry(StoredEntry(StoredEntry(
        Put(ForeignStorage, metaKey, Put(<<>>, "lastUpdated", 5)),
        <<"/">>, "folders", 1, 0),
        <<"/", "a">>, "folders", 2, 1),
        <<"/", "a">>, "files", 3, 2),
        <<"/", "a", "/", "b">>, "folders", 4, 3),
        <<"/", "a", "/", "b">>, "files", 5, 4),
        <<"/">>, "files", 6, 5)

\* the storages a session may find
InitialStorages ==
    { StoredEntry(StoredEntry(ForeignStorage, <<"/", "a">>, "folders", 2, 1), <<"/", "a">>, "files", 3, 2),
      FullStorage,
      \* three of the values are not what set wrote
      Put(Put(Put(FullStorage,
          getKey(<<"/", "a">>, "files"), [raw |-> "garbage"]),
          getKey(<<"/", "a", "/", "b">>, "files"), [raw |-> "{}"]),
          getKey(<<"/">>, "files"), [raw |-> "null"]) }

\* what a step of the cache leaves in `last`
CacheEvent(op, path, type, data, ret, via, res) ==
    [op |-> op, path |-> path, type |-> type, data |-> data, ret |-> ret, via |-> via,
     res |-> res]

InitCache ==
    /\ now = 6
    /\ localStorage \in InitialStorages
    /\ loading = <<>>
    /\ reqs = <<>>
    /\ nCalls = 0
    /\ waiting = {}
    /\ last = CacheEvent("init", <<>>, "", 0, FALSE, "", [found |-> FALSE])
    /\ hash = <<>>
    /\ currentRoute = HomeRoute
    /\ gw = GwIdle
    /\ swCache = <<>>

CacheSet == \E path \in CachePaths, type \in Types, data \in CacheData :
    /\ nCalls < MaxCacheOps
    /\ nCalls' = nCalls + 1
    /\ \E o \in set(path, type, data) :
         /\ localStorage' = o.ls
         /\ last' = CacheEvent("set", path, type, data, o.ret, o.via, [found |-> FALSE])
    /\ UNCHANGED <<now, loading, reqs, waiting, hash, currentRoute, gw, swCache>>

CacheGet == \E path \in CachePaths, type \in Types :
    /\ last' = CacheEvent("get", path, type, 0, FALSE, "", get(path, type))
    /\ UNCHANGED <<now, localStorage, loading, reqs, nCalls, waiting, hash, currentRoute, gw, swCache>>

CacheRemove == \E path \in CachePaths, type \in Types :
    /\ nCalls < MaxCacheOps
    /\ nCalls' = nCalls + 1
    /\ localStorage' = remove(localStorage, path, type)
    /\ last' = CacheEvent("remove", path, type, 0, FALSE, "", [found |-> FALSE])
    /\ UNCHANGED <<now, loading, reqs, waiting, hash, currentRoute, gw, swCache>>

CacheInvalidate == \E path \in CachePaths :
    /\ nCalls < MaxCacheOps
    /\ nCalls' = nCalls + 1
    /\ localStorage' = invalidatePath(localStorage, path)
    /\ last' = CacheEvent("invalidatePath", path, "", 0, FALSE, "", [found |-> FALSE])
    /\ UNCHANGED <<now, loading, reqs, waiting, hash, currentRoute, gw, swCache>>

CacheClearAll ==
    /\ nCalls < MaxCacheOps
    /\ nCalls' = nCalls + 1
    /\ localStorage' \in clearAll(localStorage)
    /\ last' = CacheEvent("clearAll", <<>>, "", 0, TRUE, "", [found |-> FALSE])
    /\ UNCHANGED <<now, loading, reqs, waiting, hash, currentRoute, gw, swCache>>

CacheTick == \E t \in CacheInstants :
    /\ t > now
    /\ now' = t
    /\ last' = CacheEvent("tick", <<>>, "", 0, FALSE, "", [found |-> FALSE])
    /\ UNCHANGED <<localStorage, loading, reqs, nCalls, waiting, hash, currentRoute, gw, swCache>>

CacheNext ==
    CacheSet \/ CacheGet \/ CacheRemove \/ CacheInvalidate \/ CacheClearAll \/ CacheTick

CacheSpec == InitCache /\ [][CacheNext]_vars


----------------------------------------------------------------------------
(* C11 *)

\* fetchedAt of a stored value, 0 for a value that carries none
FetchedAt(v) == IF IsEntry(v) THEN v.timestamp ELSE 0

\* the sets of keys that are the n oldest entries of a storage
OldestKeys(ls, n) ==
    {R \in SUBSET PathKeys(ls) :
        /\ Cardinality(R) = n
        /\ \A x \in R, y \in PathKeys(ls) \ R : FetchedAt(ls[x]) <= FetchedAt(ls[y])}

\* the step is a set that the storage rejected with a quota error
QuotaSet == last'.op = "set" /\ last'.via \in {"retry", "retryFailed"}

\* the entry a set step writes
NewEntry == [data |-> last'.data, timestamp |-> now, path |-> last'.path, type |-> last'.type]

\* C11: a set rejected with a quota error evicts the oldest entries of the
\* whole store (5, or all if there are fewer) and retries once; it returns
\* true with the new entry stored when the retry is accepted, and false with
\* nothing stored when it is not.
C11_EvictsAndRetries ==
    [][QuotaSet =>
          LET n == IF Cardinality(PathKeys(localStorage)) < 5
                   THEN Cardinality(PathKeys(localStorage)) ELSE 5
              key == getKey(last'.path, last'.type)
          IN  \E R \in OldestKeys(localStorage, n) :
                 IF last'.via = "retry"
                 THEN last'.ret /\ localStorage' = Put(Drop(localStorage, R), key, NewEntry)
                 ELSE ~last'.ret /\ localStorage' = Drop(localStorage, R)]_vars


----------------------------------------------------------------------------
(* C12 *)

\* the stored value that a get step reads is not an entry
ReadsMalformed ==
    /\ last'.op = "get"
    /\ getKey(last'.path, last'.type) \in DOMAIN localStorage
    /\ ~IsEntry(localStorage[getKey(last'.path, last'.type)])

\* C12: get leaves the store as it is, and it reports a stored value that
\* is malformed (text that does not parse, or a parsed value without payload
\* and timestamp) as absent, the key staying in place.
C12_MalformedIsAbsent ==
    [][/\ last'.op = "get" => localStorage' = localStorage
       /\ ReadsMalformed => ~last'.res.found]_vars


----------------------------------------------------------------------------
(* isStale and isExpired on their own: any timestamp, any path, any instant *)

\* the instants, in hours
FreshInstants == {0, 6, 7, 12, 24, 25, 30, 168, 169, 192}

\* the timestamps asked about
FreshStamps == {0, 1, 5}

FreshPaths == {<<"/">>, <<>>, <<"/", "a">>, <<"/", "a", "/", "b">>}

InitFresh ==
    /\ now = 0
    /\ localStorage = <<>>
    /\ loading = <<>>
    /\ reqs = <<>>
    /\ nCalls = 0
    /\ waiting = {}
    /\ last = [op |-> "init"]
    /\ hash = <<>>
    /\ currentRoute = HomeRoute
    /\ gw = GwIdle
    /\ swCache = <<>>

FreshCheck == \E timestamp \in FreshStamps, path \in FreshPaths :
    /\ timestamp <= now
    /\ last' = [op |-> "check", timestamp |-> timestamp, path |-> path,
                isStale |-> isStale(timestamp, path),
                isExpired |-> isExpired(timestamp, path)]
    /\ UNCHANGED <<now, localStorage, loading, reqs, nCalls, waiting, hash, currentRoute, gw, swCache>>

FreshTick == \E t \in FreshInstants :
    /\ t > now
    /\ now' = t
    /\ last' = [op |-> "tick"]
    /\ UNCHANGED <<localStorage, loading, reqs, nCalls, waiting, hash, currentRoute, gw, swCache>>

FreshNext == FreshCheck \/ FreshTick

FreshSpec == InitFresh /\ [][FreshNext]_vars

----------------------------------------------------------------------------
(* C14 *)

OtherType(type) == IF type = "folders" THEN "files" ELSE "folders"

\* the step leaves what is stored for (path, type) as it is
Untouched(path, type) ==
    LET k == getKey(path, type) IN
    /\ k \in DOMAIN localStorage <=> k \in DOMAIN localStorage'
    /\ k \in DOMAIN localStorage => localStorage'[k] = localStorage[k]

\* the step writes FILES after the step before wrote FOLDERS for the same path
FoldersThenFiles ==
    /\ last.op = "set" /\ last.ret /\ last.type = "folders"
    /\ last'.op = "set" /\ last'.ret /\ last'.type = "files"
    /\ last'.path = last.path

\* C14 as it is stated: a set or a remove for one content type never changes
\* the entry of the other content type of the same path
C14_AsStated ==
    [][/\ last'.op \in {"set", "remove"} => Untouched(last'.path, OtherType(last'.type))
       /\ FoldersThenFiles =>
             /\ getFrom(localStorage', last.path, "folders").found
             /\ getFrom(localStorage', last.path, "folders").data = last.data]_vars

\* C14: a remove, and a set that the storage does not reject with a quota
\* error, for one content type leave the entry of the other content type of
\* the same path as it is; so set(path, FOLDERS, X) followed by such a
\* set(path, FILES, Y) leaves get(path, FOLDERS) returning X.
C14_KeyIndependence ==
    [][/\ (last'.op \in {"set", "remove"} /\ ~QuotaSet) =>
             Untouched(last'.path, OtherType(last'.type))
       /\ (FoldersThenFiles /\ ~QuotaSet) =>
             /\ getFrom(localStorage', last.path, "folders").found
             /\ getFrom(localStorage', last.path, "folders").data = last.data]_vars

\* FOLDERS then FILES were written for one path, and both payloads are there
C14_Witness ==
    /\ last.op = "set" /\ last.via = "ok" /\ last.type = "files" /\ last.data = 8
    /\ nCalls = 2
    /\ get(last.path, "folders").found
    /\ get(last.path, "folders").data = 7
    /\ get(last.path, "files").data = 8


----------------------------------------------------------------------------
(* C15 *)

\* C15: invalidatePath(path) leaves get(path, 'folders') and
\* get(path, 'files') absent, and it changes no entry of another path: every
\* entry that was written for another path is still stored, as it was.
C15_InvalidatesOnePath ==
    [][last'.op = "invalidatePath" =>
          /\ ~getFrom(localStorage', last'.path, "folders").found
          /\ ~getFrom(localStorage', last'.path, "files").found
          /\ \A k \in DOMAIN localStorage :
                (IsEntry(localStorage[k]) /\ localStorage[k].path # last'.path) =>
                    (k \in DOMAIN localStorage' /\ localStorage'[k] = localStorage[k])]_vars


----------------------------------------------------------------------------
(* C16 *)

\* a key of the Path Cache: an entry's key, or the key of its metadata
OwnedKey(k) == startsWith(k, storagePrefix) \/ k = metaKey

\* C16: clearAll removes every key with the prefix 'curb_path_', so that get
\* is absent for every path and type, and leaves every key that the Path
\* Cache does not own with the value it had.
C16_ClearAll ==
    [][last'.op = "clearAll" =>
          /\ \A k \in DOMAIN localStorage' : ~startsWith(k, storagePrefix)
          /\ \A path \in CachePaths \cup FreshPaths, type \in Types :
                ~getFrom(localStorage', path, type).found
          /\ \A k \in DOMAIN localStorage :
                ~OwnedKey(k) => (k \in DOMAIN localStorage' /\ localStorage'[k] = localStorage[k])]_vars

\* clearAll has run on a storage that held entries and the keys
\* 'app_version' and 'theme'
C16_Witness ==
    /\ last.op = "clearAll"
    /\ nCalls = 1
    /\ PathKeys(localStorage) = {}
    /\ {<<"a", "p", "p", "_", "v", "e", "r", "s", "i", "o", "n">>, <<"t", "h", "e", "m", "e">>} \subseteq DOMAIN localStorage
    /\ metaKey \in DOMAIN localStorage /\ "lastCleared" \in DOMAIN localStorage[metaKey]


----------------------------------------------------------------------------
(* C17, C18, C19 *)

\* the step takes a new request in
Arrives == gw'.nReq = gw.nReq + 1

\* the key of the server cache for the request the step takes in
ArrivingKey == getCacheKey(gw'.path \o <<":">> \o TypeText(gw'.type))

\* the step takes in a GET request that the configured gateway serves
Served == Arrives /\ gw'.method = "GET" /\ ~(gw'.pc = "done" /\ gw'.response.status = 500)

\* the folder a path leads to, from the folder id; -1 if it leads nowhere
RECURSIVE FolderOf(_, _)
FolderOf(segs, id) ==
    IF segs = <<>> THEN id
    ELSE LET hits == SelectSeq(listFolders(id), LAMBDA f : SpecMatches(Head(segs), f))
         IN  IF hits = <<>> THEN -1 ELSE FolderOf(Tail(segs), Head(hits).id)

\* the listing that a walk of the provider gives for the request
WalkedListing(path, type) ==
    listingData(type, DropEmpty(Split(path, "/")),
                FolderOf(DropEmpty(Split(path, "/")), rootFolderId))

\* C17: a request that finds a server-cache entry younger than 30 minutes is
\* answered with that entry's data, cached = true and X-Cache HIT, without
\* a provider call; an entry aged 30 minutes or more is deleted and the walk
\* is done again, answered with X-Cache MISS; and every listing answered,
\* from the cache or not, is the listing a walk of the provider gives.
C17_ServerCache ==
    [][/\ (Served /\ ArrivingKey \in DOMAIN gw.pathCache) =>
             IF gw.time - gw.pathCache[ArrivingKey].timestamp < 30
             THEN /\ gw'.pc = "done"
                  /\ gw'.response.status = 200
                  /\ gw'.response.data = gw.pathCache[ArrivingKey].data
                  /\ gw'.response.cached /\ gw'.response.xCache = "HIT"
                  /\ gw'.calls = 0
                  /\ gw'.pathCache = gw.pathCache
             ELSE /\ gw'.pc \in {"walk", "list"}
                  /\ ArrivingKey \notin DOMAIN gw'.pathCache
       /\ (gw'.pc = "done" /\ gw'.response.status = 200 /\ gw'.method = "GET") =>
             /\ gw'.response.data = WalkedListing(gw'.path, gw'.type)
             /\ gw'.response.cached <=> gw'.response.xCache = "HIT"
             /\ gw'.response.cached <=> gw'.calls = 0]_vars

\* an entry written 29 minutes before is returned
C17_Witness ==
    /\ gw.pc = "done" /\ gw.method = "GET" /\ gw.response.status = 200
    /\ gw.response.cached /\ gw.response.xCache = "HIT"
    /\ gw.calls = 0
    /\ gw.time - gw.response.timestamp = 29
    /\ gw.response.data # <<>>

\* C18: when a provider call fails, while a segment is resolved or while
\* the target is listed, the request ends there with 500 'Failed to fetch
\* data' (not the 404 of a path that is not found); the step writes nothing
\* to the server cache and the call is not made again.
C18_ProviderFailure ==
    [][/\ gw'.failed =>
             /\ gw'.pc = "done"
             /\ gw'.response = [status |-> 500, error |-> "Failed to fetch data"]
       /\ (gw'.failed /\ ~gw.failed) =>
             /\ gw'.pathCache = gw.pathCache
             /\ gw'.calls = gw.calls + 1
             /\ gw'.calls = IF gw.pc = "walk" THEN gw.i ELSE Len(gw.segments) + 1]_vars

\* the provider failed after two segments were resolved
C18_Witness ==
    /\ gw.failed
    /\ gw.response.status = 500
    /\ gw.calls = 3

\* the step takes in a request of a method that the handler neither serves
\* nor answers as a preflight
Rejected(methods) == Arrives /\ gw'.method \notin methods

NoProviderNoCache == gw'.calls = 0 /\ gw'.pathCache = gw.pathCache /\ gw'.pc = "done"

\* C19 as it is stated: every method other than GET is answered with 405
C19_AsStated ==
    [][Rejected({"GET"}) => gw'.response.status = 405 /\ NoProviderNoCache]_vars

\* C19: every request whose method is neither GET nor OPTIONS is answered
\* with 405 'Method not allowed', without a provider call and with the
\* server cache neither read nor changed; an OPTIONS request is answered
\* with an empty 200, likewise without provider call or cache access.
C19_MethodNotAllowed ==
    [][/\ Rejected({"GET", "OPTIONS"}) =>
             /\ gw'.response = [status |-> 405, error |-> "Method not allowed"]
             /\ NoProviderNoCache
       /\ (Arrives /\ gw'.method = "OPTIONS") =>
             /\ gw'.response = [status |-> 200]
             /\ NoProviderNoCache]_vars

\* a POST is refused while the server cache holds an entry of its path that
\* a GET would have found outdated and deleted
C19_Witness ==
    /\ gw.method = "POST" /\ gw.pc = "done" /\ gw.response.status = 405
    /\ LET key == getCacheKey(gw.path \o <<":">> \o TypeText(gw.type)) IN
       /\ key \in DOMAIN gw.pathCache
       /\ gw.time - gw.pathCache[key].timestamp >= 30


----------------------------------------------------------------------------
(* Navigator.parseRoute on its own: any hash *)

\* '/' and the segments, one after the other
RECURSIVE HashOf(_)
HashOf(parts) ==
    IF parts = <<>> THEN <<>> ELSE <<"/">> \o Head(parts) \o HashOf(Tail(parts))

RouteDepartments == {<<"a">>, <<"J", "u", "p", "e", "b">>, <<"a", "b", "o", "u", "t">>, <<"A", "b", "O", "u", "t">>, <<"x", "%", "2", "0", "y">>, <<"%">>}

RouteLevels == {<<"1">>, <<"L", "%", "2", "F">>}

RouteThirds == {<<"s">>, <<"2", "0", "2", "4", "~", "2", "5", " ", "S", "e", "s", "s", "i", "o", "n">>, <<"%", "z", "z">>}

RouteFourths == {<<"x">>, <<"2", "0", "2", "4", "~", "2", "5", "%", "2", "0", "S", "e", "s", "s", "i", "o", "n">>}

\* the hashes: up to five segments, well and badly escaped, and the old
\* hashes with a '/' inside the session
RouteHashes ==
    {<<>>, <<"/">>}
    \cup {HashOf(<<d>>) : d \in RouteDepartments}
    \cup {HashOf(<<d, l>>) : d \in RouteDepartments \ {<<"a", "b", "o", "u", "t">>}, l \in RouteLevels}
    \cup {HashOf(<<d, <<"1">>, t>>) : d \in {<<"a">>, <<"J", "u", "p", "e", "b">>, <<"x", "%", "2", "0", "y">>}, t \in RouteThirds}
    \cup {HashOf(<<d, <<"1">>, t, f>>) : d \in {<<"a">>, <<"J", "u", "p", "e", "b">>}, t \in RouteThirds, f \in RouteFourths}
    \cup {HashOf(<<d, <<"1">>, <<"s">>, <<"x">>, <<"y">>>>) : d \in {<<"a">>, <<"J", "u", "p", "e", "b">>}}
    \cup {HashOf(<<<<"a">>, <<"1">>, <<"s">>, y, w>>) :
             y \in {<<"2", "0", "2", "4">>, <<"2", "0", "2">>},
             w \in {<<"2", "5", " ", "S", "e", "s", "s", "i", "o", "n">>, <<"2", "5", "s", "e", "s", "s", "i", "o", "n">>, <<"2", "5", "%", "2", "0", "S", "e", "s", "s", "i", "o", "n">>, <<"2", "5", " ", "S", "e", "s", "s", "i", "o", "n", "s">>}}
    \cup {HashOf(<<<<"J", "u", "p", "e", "b">>, <<"A">>, <<"2", "0", "2", "4">>, <<"2", "5", " ", "S", "e", "s", "s", "i", "o", "n">>>>)}

InitRoute ==
    /\ now = 0
    /\ localStorage = <<>>
    /\ loading = <<>>
    /\ reqs = <<>>
    /\ nCalls = 0
    /\ waiting = {}
    /\ last = [op |-> "init"]
    /\ hash = <<>>
    /\ currentRoute = HomeRoute
    /\ gw = GwIdle
    /\ swCache = <<>>

\* the hash changes and the popstate handler runs parseRoute; when it throws,
\* the current route stays
RouteParse == \E h \in RouteHashes :
    LET r == parseRoute(h)
    IN  /\ hash' = h
        /\ last' = [op |-> "parseRoute", route |-> r]
        /\ currentRoute' = IF r.view = "URIError" THEN currentRoute ELSE r
        /\ UNCHANGED <<now, localStorage, loading, reqs, nCalls, waiting, gw, swCache>>

RouteSpec == InitRoute /\ [][RouteParse]_vars

\* the text contains the old form of a session, '/YYYY/YY Session', from i
OldSessionAt(h, i) ==
    /\ i + 15 <= Len(h)
    /\ h[i] = "/" /\ \A k \in (i + 1)..(i + 4) : h[k] \in Digits
    /\ h[i + 5] = "/" /\ h[i + 6] \in Digits /\ h[i + 7] \in Digits
    /\ h[i + 8] = " "
    /\ SubSeq(h, i + 9, i + 15) = <<"S", "e", "s", "s", "i", "o", "n">>

\* the segments of the statement: those of the hash, an old-form session
\* counting as the one segment 'YYYY~YY Session'
RECURSIVE StatedSegments(_, _, _)
StatedSegments(h, i, cur) ==
    IF i > Len(h) THEN (IF cur = <<>> THEN <<>> ELSE <<cur>>)
    ELSE IF OldSessionAt(h, i)
    THEN (IF cur = <<>> THEN <<>> ELSE <<cur>>)
         \o StatedSegments(h, i + 16,
                SubSeq(h, i + 1, i + 4) \o <<"~">> \o SubSeq(h, i + 6, i + 15))
    ELSE IF h[i] = "/"
    THEN (IF cur = <<>> THEN <<>> ELSE <<cur>>) \o StatedSegments(h, i + 1, <<>>)
    ELSE StatedSegments(h, i + 1, Append(cur, h[i]))

\* the view the statement gives for the segments
StatedView(segs) ==
    LET n == Len(segs)
        jupeb == n >= 1 /\ decodeURIComponent(segs[1]) = <<"J", "u", "p", "e", "b">>
    IN  CASE n = 0 -> "home"
          [] n = 1 -> IF IsAbout(segs[1]) THEN "about" ELSE "levels"
          [] n = 2 -> IF jupeb THEN "sessions" ELSE "semesters"
          [] n = 3 -> IF jupeb THEN "files" ELSE "sessions"
          [] OTHER -> "files"

\* C20: parseRoute gives the view of the segment count and the department:
\* none 'home'; the one segment 'about' in any case 'about'; one 'levels';
\* two 'semesters', for Jupeb 'sessions'; three 'sessions' with the semester
\* set, for Jupeb 'files' with the session set and no semester; four or more
\* 'files'; an old-form '/YYYY/YY Session' counting as the one segment
\* 'YYYY~YY Session'.
C20_ParseRoute ==
    last.op = "parseRoute" =>
        LET segs == StatedSegments(hash, 1, <<>>)
            n == Len(segs)
            jupeb == n >= 1 /\ decodeURIComponent(segs[1]) = <<"J", "u", "p", "e", "b">>
            r == last.route
        IN  /\ r.view = StatedView(segs)
            /\ (n = 3 /\ ~jupeb) => r.semester = decodeURIComponent(segs[3])
            /\ (n = 3 /\ jupeb) =>
                  r.session = decodeURIComponent(segs[3]) /\ r.semester = Null
            /\ (n = 4 /\ ~jupeb /\ \E i \in 1..Len(hash) : OldSessionAt(hash, i)) =>
                  r.session = decodeURIComponent(segs[4])


----------------------------------------------------------------------------
(* encodeSegment, decodeSegment, displayName: any folder name *)

MaxName == 3

NameChars == {"a", "/", " ", "%", "~", "2", "0"}

\* the folder names, and the arguments that are no text
SegmentNames ==
    UNION {[1..k -> NameChars] : k \in 0..MaxName} \cup {Null, Undefined}

InitSegment ==
    /\ now = 0
    /\ localStorage = <<>>
    /\ loading = <<>>
    /\ reqs = <<>>
    /\ nCalls = 0
    /\ waiting = {}
    /\ last = [op |-> "init"]
    /\ hash = <<>>
    /\ currentRoute = HomeRoute
    /\ gw = GwIdle
    /\ swCache = <<>>

\* a name is encoded for a link, decoded out of the hash by parseRoute and
\* shown in a breadcrumb; each function is also called on the name itself
SegmentRoundTrip == \E n \in SegmentNames :
    LET e == encodeSegment(n)
    IN  /\ last' = [op |-> "roundTrip", name |-> n, encoded |-> e,
                    throws |-> DecodeThrows(e),
                    decoded |-> decodeSegment(e),
                    shown |-> displayName(decodeSegment(e)),
                    decodedName |-> IF Truthy(n) /\ DecodeThrows(n) THEN Null
                                    ELSE decodeSegment(n),
                    shownName |-> displayName(n)]
        /\ UNCHANGED <<now, localStorage, loading, reqs, nCalls, waiting, hash,
                       currentRoute, gw, swCache>>

SegmentSpec == InitSegment /\ [][SegmentRoundTrip]_vars

\* the characters of a text
Chars(s) == {s[i] : i \in 1..Len(s)}

\* C21: for a folder name without '~', decoding the encoded name gives the
\* name with each '/' replaced by '~', which holds no '/', and displayName
\* of it gives the name back; the three functions give the empty text for
\* an empty, null or undefined argument.
C21_RoundTrip ==
    last.op = "roundTrip" =>
        /\ (Truthy(last.name) /\ "~" \notin Chars(last.name)) =>
              /\ ~last.throws
              /\ last.decoded = ReplaceChar(last.name, "/", "~")
              /\ "/" \notin Chars(last.decoded)
              /\ last.shown = last.name
        /\ ~Truthy(last.name) =>
              /\ last.encoded = <<>>
              /\ last.decodedName = <<>>
              /\ last.shownName = <<>>

\* a name with '/', a blank and a '%' has made the round trip
C21_Witness ==
    /\ last.op = "roundTrip"
    /\ last.name = <<"/", " ", "%">>
    /\ last.encoded = <<"~", "%", "2", "0", "%", "2", "5">>
    /\ last.shown = last.name


----------------------------------------------------------------------------
(* App.init: the version check and the first view *)

appVersionKey == <<"a", "p", "p", "_", "v", "e", "r", "s", "i", "o", "n">>

\* CONFIG.version
currentVersion == "1.4.0"

\* what localStorage.getItem('app_version') finds: an earlier version,
\* nothing, or the current version
StoredVersions == {"1.3.0", "none", "1.4.0"}

\* the hash the page is opened with
BootHashes == {<<>>, <<"/", "a">>}

\* what an earlier session left: fresh listings of '/' and '/a', payload 0
BootStorage(v) ==
    LET entries == StoredEntry(StoredEntry(Put(<<>>, metaKey, Put(<<>>, "lastUpdated", 0)),
                                           <<"/">>, "folders", 0, 0),
                               <<"/", "a">>, "folders", 0, 0)
    IN  IF v = "none" THEN entries ELSE Put(entries, appVersionKey, [raw |-> v])

storedVersion(ls) == IF appVersionKey \in DOMAIN ls THEN ls[appVersionKey].raw ELSE "none"

\* cacheManager.clear: clearAll, then the two legacy keys
cacheManagerClear(ls) ==
    {Drop(m, {<<"c", "u", "r", "b", "_", "d", "a", "t", "a">>, <<"c", "u", "r", "b", "_", "m", "e", "t", "a">>}) : m \in clearAll(ls)}

\* clearAllCaches from `pathCache.clearAll()` on: the storages it may leave
clearStorage(ls) == UNION {cacheManagerClear(m) : m \in clearAll(ls)}

\* clearAllCaches suspended at `await caches.keys()`
ClearCall == [path |-> <<>>, type |-> "", force |-> FALSE, by |-> "clearAllCaches", req |-> 0]

InitBoot ==
    /\ now = 1
    /\ \E v \in StoredVersions : localStorage = BootStorage(v)
    /\ loading = <<>>
    /\ reqs = <<>>
    /\ nCalls = 0
    /\ waiting = {}
    /\ last = Event("init", 0, FALSE, {})
    /\ hash \in BootHashes
    /\ currentRoute = parseRoute(hash)
    /\ gw = GwIdle
    /\ swCache = <<>>

\* App.init up to `await driveAPI.init()`, in a window with the Cache API
\* (hasCaches) or without it.  checkVersionAndClearCache calls
\* clearAllCaches without awaiting it: with the Cache API it suspends at
\* `await caches.keys()` before it reaches pathCache.clearAll().
AppInit == \E hasCaches \in BOOLEAN :
    LET differs == storedVersion(localStorage) # currentVersion
        cleared == IF differs /\ ~hasCaches THEN clearStorage(localStorage)
                   ELSE {localStorage}
    IN  /\ last.op = "init"
        /\ \E m \in cleared :
             localStorage' = IF differs THEN Put(m, appVersionKey, [raw |-> currentVersion])
                             ELSE m
        /\ waiting' = IF differs /\ hasCaches THEN {ClearCall} ELSE {}
        /\ last' = Event("checkVersion", 0, differs, {})
        /\ UNCHANGED <<now, loading, reqs, nCalls, hash, currentRoute, gw, swCache>>

\* App.init from `await driveAPI.init()` on: driveAPI.init awaits nothing
\* the browser has to answer, so init resumes within the same task and
\* renders the initial view
AppFirstView ==
    /\ last.op = "checkVersion"
    /\ IF currentRoute.view \in ListingViews
       THEN /\ fetchPathFrom(localStorage, RenderFetch(currentRoute).path,
                             RenderFetch(currentRoute).type, FALSE, "init")
       ELSE /\ last' = Event("about", 0, FALSE, {})
            /\ UNCHANGED <<now, localStorage, loading, reqs, nCalls, waiting>>
    /\ UNCHANGED <<hash, currentRoute, gw, swCache>>

\* clearAllCaches resumes once the Cache API has answered: the caches are
\* deleted, then pathCache.clearAll() and cacheManager.clear() run
ClearResumes ==
    /\ last.op \notin {"init", "checkVersion"}
    /\ ClearCall \in waiting
    /\ localStorage' \in clearStorage(localStorage)
    /\ waiting' = waiting \ {ClearCall}
    /\ swCache' = <<>>
    /\ last' = Event("clearAllCaches", 0, TRUE, {})
    /\ UNCHANGED <<now, loading, reqs, nCalls, hash, currentRoute, gw>>

BootNavigate ==
    /\ last.op \notin {"init", "checkVersion"}
    /\ AppNavigate

BootNext == AppInit \/ AppFirstView \/ ClearResumes \/ BootNavigate \/ ApiOk \/ ApiFail

BootSpec == InitBoot /\ [][BootNext]_vars

\* (the entries an earlier session left carry the payload 0; a payload
\* fetched in this session carries the number of its request)

\* C22: when App.init finds a stored version other than CONFIG.version, the
\* entries of the Path Cache that existed before are removed before the
\* first listing fetch consults it: no fetchPath call is served such an
\* entry, and the clear removes no entry fetched after the version check.
C22_VersionBump ==
    [][/\ (\/ last.op = "checkVersion" /\ last.ret
           \/ ClearCall \in waiting) =>
              \A c \in last'.calls : ~(c.src = "cache" /\ c.data = 0)
       /\ last'.op = "clearAllCaches" =>
              \A k \in PathKeys(localStorage) :
                  (IsEntry(localStorage[k]) /\ localStorage[k].data > 0) =>
                      k \in DOMAIN localStorage']_vars


----------------------------------------------------------------------------
(* C23 *)

\* the renderers a step resumed: each writes the listing it awaited (or its
\* empty state, or the error state of handleRouteChange) into #main-content
Resumed ==
    IF last.op \in {"doFetchOk", "doFetchFail"}
    THEN {c \in last.calls : c.by \in {"navigate", "refresh"}}
    ELSE {}

\* whether the listing the call awaited is the one of the current route
OfCurrentRoute(c) ==
    /\ c.path = RenderFetch(currentRoute).path
    /\ c.type = RenderFetch(currentRoute).type

\* no renderer is still awaiting its listing
NoneAwaited == \A w \in waiting : w.by \notin {"navigate", "refresh"}

\* C23: when the user went on to route B while the listing of route A was
\* awaited, then once both fetches have completed the main content shows
\* the view of B: the renderer that awaited A's listing does not write it
\* over B's view.
C23_Superseded ==
    (NoneAwaited /\ currentRoute.view \in ListingViews) =>
        \A c \in Resumed : OfCurrentRoute(c)


----------------------------------------------------------------------------
(* The application in a session that starts with an entry left by an
   earlier one *)

WarmAppInstants == {7, 8}

WarmAppHashes == {<<>>, <<"/", "a">>, <<"/", "a", "/", "1">>}

WarmNavigate == \E h \in WarmAppHashes :
    /\ navigateTo(h)
    /\ UNCHANGED <<gw, swCache>>

WarmTick == \E t \in WarmAppInstants :
    /\ Tick(t)
    /\ UNCHANGED <<hash, currentRoute, gw, swCache>>

WarmAppNext == WarmNavigate \/ AppRefresh \/ ApiOk \/ ApiFail \/ WarmTick

WarmAppSpec == InitWarm /\ [][WarmAppNext]_vars

\* the request whose response the entry of the key holds in ls, 0 if there
\* is none or the entry is the one the earlier session left
ResponseIn(ls, path, type) ==
    IF getKey(path, type) \in DOMAIN ls /\ IsEntry(ls[getKey(path, type)])
    THEN ls[getKey(path, type)].data
    ELSE 0

StoredResponse(path, type) == ResponseIn(localStorage, path, type)

\* C24: once a refresh by the user has stored its response for a key, the
\* entry is not overwritten by the response of a request for that key that
\* was issued before the refresh.
C24_NoRegression ==
    [][\A r \in 1..Len(reqs) :
          (/\ last'.op = "doFetchOk" /\ last'.r = r
           /\ StoredResponse(reqs[r].path, reqs[r].type) > r
           /\ reqs[StoredResponse(reqs[r].path, reqs[r].type)].by = "refresh") =>
              ResponseIn(localStorage', reqs[r].path, reqs[r].type) # r]_vars

----------------------------------------------------------------------------
(* The page under the service worker: /api/ requests are answered network
   first, from the worker's cache when the network fails *)

OfflineInstants == {24, 25, 50}

OfflinePaths == {<<"/", "a">>}

\* the URL of the browse request for (path, type)
urlOf(path, type) == cacheKeyOf(path, type)

OfflineFetch == \E path \in OfflinePaths :
    /\ fetchPath(path, "folders", FALSE, "api")
    /\ UNCHANGED <<hash, currentRoute, gw, swCache>>

\* the network answers 200: the worker stores a copy of the response and
\* passes it on; doFetch caches the payload and returns it.  A payload is
\* named by the hour the gateway listed it.
SwNetworkOk == \E r \in 1..Len(reqs) :
    /\ reqs[r].state = "pending"
    /\ swCache' = Put(swCache, urlOf(reqs[r].path, reqs[r].type), now)
    /\ \E o \in set(reqs[r].path, reqs[r].type, now) :
         /\ localStorage' = o.ls
         /\ SettleWith(r, "doFetchOk", o.ret, "done", now)
    /\ reqs' = [reqs EXCEPT ![r].state = "done"]
    /\ Finally(r)
    /\ UNCHANGED <<now, nCalls, hash, currentRoute, gw>>

\* the network fails and the worker finds the request in its cache: the
\* stored 200 response is the answer, which doFetch caches and returns
SwFallback == \E r \in 1..Len(reqs) :
    LET url == urlOf(reqs[r].path, reqs[r].type) IN
    /\ reqs[r].state = "pending"
    /\ url \in DOMAIN swCache
    /\ \E o \in set(reqs[r].path, reqs[r].type, swCache[url]) :
         /\ localStorage' = o.ls
         /\ SettleWith(r, "swFallback", o.ret, "done", swCache[url])
    /\ reqs' = [reqs EXCEPT ![r].state = "done"]
    /\ Finally(r)
    /\ UNCHANGED <<now, nCalls, hash, currentRoute, gw, swCache>>

\* the network fails and the worker's cache has no match: the worker answers
\* 503, on which doFetch throws
SwOffline == \E r \in 1..Len(reqs) :
    /\ urlOf(reqs[r].path, reqs[r].type) \notin DOMAIN swCache
    /\ doFetchFail(r)
    /\ UNCHANGED <<hash, currentRoute, gw, swCache>>

\* the gateway answers with an error status, which the worker passes on
SwNetworkError == \E r \in 1..Len(reqs) :
    /\ doFetchFail(r)
    /\ UNCHANGED <<hash, currentRoute, gw, swCache>>

OfflineTick == \E t \in OfflineInstants :
    /\ Tick(t)
    /\ UNCHANGED <<hash, currentRoute, gw, swCache>>

OfflineNext ==
    OfflineFetch \/ SwNetworkOk \/ SwFallback \/ SwOffline \/ SwNetworkError \/ OfflineTick

OfflineSpec == Init /\ [][OfflineNext]_vars

\* C25: every payload fetchPath returns was listed by the gateway at most
\* the hard TTL of its path plus the gateway's 30 minutes ago, also when the
\* network fails and the service worker answers from its cache (hours are
\* doubled to count the half hour).
C25_BoundedStaleness ==
    \A c \in last.calls :
        c.state = "done" => 2 * (now - c.data) <= 2 * HardTTLOf(c.path) + 1


----------------------------------------------------------------------------
(* C26 *)

\* the in-flight table of ld over the requests rs holds a key only for a
\* pending request of that key
OnlyPending(ld, rs) ==
    \A k \in DOMAIN ld :
        /\ ld[k] \in 1..Len(rs)
        /\ rs[ld[k]].state = "pending"
        /\ cacheKeyOf(rs[ld[k]].path, rs[ld[k]].type) = k

\* the step completes the blocking request r
Completes(r) ==
    /\ last'.op \in {"doFetchOk", "doFetchFail"}
    /\ last'.r = r
    /\ reqs[r].kind = "blocking"

\* the step is a fetchPath call for the key of the request r
FetchesKeyOf(r) ==
    /\ last'.op = "fetchPath"
    /\ \E c \in last'.calls : c.path = reqs[r].path /\ c.type = reqs[r].type

----------------------------------------------------------------------------
(* C27 *)

\* the folder names a path denotes
SegmentsOf(path) == DropEmpty(Split(path, "/"))

\* (path, type) and (p, t) are different logical folders
OtherFolder(path, type, p, t) == SegmentsOf(p) # SegmentsOf(path) \/ t # type

\* C27: getKey gives different keys to different logical folders (paths of
\* different segment sequences, or different types), so a set that the
\* storage accepts, or a remove, for one folder leaves the entry written for
\* every other folder stored as it was.
C27_KeyInjective ==
    [][last'.op \in {"set", "remove"} =>
          /\ \A p \in CachePaths, t \in Types :
                OtherFolder(last'.path, last'.type, p, t) =>
                    getKey(p, t) # getKey(last'.path, last'.type)
          /\ last'.via \in {"ok", ""} =>
                \A k \in DOMAIN localStorage :
                    (/\ IsEntry(localStorage[k])
                     /\ OtherFolder(last'.path, last'.type,
                                    localStorage[k].path, localStorage[k].type)) =>
                        (k \in DOMAIN localStorage' /\ localStorage'[k] = localStorage[k])]_vars


----------------------------------------------------------------------------
(* get over the life of an entry: any age, the root path and another *)

TierPaths == {<<"/">>, <<"/", "a">>}

\* what an earlier session left: listings of '/' and '/a' written at hour 0,
\* and a value for the files of '/a' that is no entry
TierStorage ==
    Put(StoredEntry(StoredEntry(<<>>, <<"/">>, "folders", 1, 0),
                    <<"/", "a">>, "folders", 2, 0),
        getKey(<<"/", "a">>, "files"), [raw |-> "{}"])

InitTier ==
    /\ now = 0
    /\ localStorage = TierStorage
    /\ loading = <<>>
    /\ reqs = <<>>
    /\ nCalls = 0
    /\ waiting = {}
    /\ last = CacheEvent("init", <<>>, "", 0, FALSE, "", [found |-> FALSE])
    /\ hash = <<>>
    /\ currentRoute = HomeRoute
    /\ gw = GwIdle
    /\ swCache = <<>>

TierGet == \E path \in TierPaths, type \in Types :
    /\ last' = CacheEvent("get", path, type, 0, FALSE, "", get(path, type))
    /\ UNCHANGED <<now, localStorage, loading, reqs, nCalls, waiting, hash, currentRoute,
                   gw, swCache>>

TierSet == \E path \in TierPaths, data \in CacheData :
    /\ nCalls < MaxCacheOps
    /\ nCalls' = nCalls + 1
    /\ \E o \in set(path, "folders", data) :
         /\ localStorage' = o.ls
         /\ last' = CacheEvent("set", path, "folders", data, o.ret, o.via, [found |-> FALSE])
    /\ UNCHANGED <<now, loading, reqs, waiting, hash, currentRoute, gw, swCache>>

TierTick == \E t \in FreshInstants :
    /\ t > now
    /\ now' = t
    /\ last' = CacheEvent("tick", <<>>, "", 0, FALSE, "", [found |-> FALSE])
    /\ UNCHANGED <<localStorage, loading, reqs, nCalls, waiting, hash, currentRoute, gw,
                   swCache>>

TierNext == TierGet \/ TierSet \/ TierTick

TierSpec == InitTier /\ [][TierNext]_vars

\* the states of an entry that get returned: fresh (hasFresh), stale but
\* served (fetchPath returns it and refreshes), expired (fetchPath fetches)
TiersOf(res) ==
    {t \in {"fresh", "stale", "expired"} :
        \/ t = "fresh" /\ ~res.isStale
        \/ t = "stale" /\ res.isStale /\ ~res.isExpired
        \/ t = "expired" /\ res.isExpired}

----------------------------------------------------------------------------
(* C29 *)

\* the child of the department that the second segment names is one the
\* department's FOLDERS listing leaves out
ThroughUnlisted ==
    /\ Len(gw.segments) >= 2
    /\ \E d \in ChildrenOf(rootFolderId) :
          /\ SpecMatches(gw.segments[1], d)
          /\ \E c \in ChildrenOf(d.id) :
                /\ SpecMatches(gw.segments[2], c)
                /\ levelFilter(<<gw.segments[1]>>,
                               <<[id |-> c.id, name |-> normalizeFolderName(c.name)]>>) = <<>>

----------------------------------------------------------------------------
(* Navigator.goBack *)

\* the path goBack navigates to, <<>> when it does nothing; a component
\* that is null reads 'null' in the template literal
goBackPath(route) ==
    IF Truthy(route.session)
    THEN <<"/">> \o Interp(route.department) \o <<"/">> \o Interp(route.level)
         \o <<"/">> \o Interp(route.semester)
    ELSE IF Truthy(route.semester)
    THEN <<"/">> \o Interp(route.department) \o <<"/">> \o Interp(route.level)
    ELSE IF Truthy(route.level)
    THEN <<"/">> \o Interp(route.department)
    ELSE IF Truthy(route.department)
    THEN <<"/">>
    ELSE <<>>

goBack ==
    /\ goBackPath(currentRoute) # <<>>
    /\ hash' = goBackPath(currentRoute)
    /\ currentRoute' = parseRoute(goBackPath(currentRoute))
    /\ parseRoute(goBackPath(currentRoute)).view # "URIError"
    /\ handleRouteChange(localStorage, parseRoute(goBackPath(currentRoute)), "goBack")

AppGoBack ==
    /\ goBack
    /\ UNCHANGED <<gw, swCache>>

BackNext == AppNavigate \/ AppGoBack \/ ApiOk \/ ApiFail

BackSpec == Init /\ [][BackNext]_vars

\* the route with its deepest set component dropped, and the view of what
\* is left
ParentOf(route) ==
    LET r == IF Truthy(route.session) THEN [route EXCEPT !.session = Null]
             ELSE IF Truthy(route.semester) THEN [route EXCEPT !.semester = Null]
             ELSE IF Truthy(route.level) THEN [route EXCEPT !.level = Null]
             ELSE [route EXCEPT !.department = Null]
    IN  [r EXCEPT !.view =
            IF Truthy(r.semester) THEN "sessions"
            ELSE IF Truthy(r.level)
                 THEN (IF r.department = Jupeb THEN "sessions" ELSE "semesters")
            ELSE IF Truthy(r.department) THEN "levels"
            ELSE "home"]

\* the step is a goBack
WentBack ==
    \/ last'.op = "goBack"
    \/ nCalls' = nCalls + 1 /\ \E c \in last'.calls : c.by = "goBack"

\* C30: goBack from a route with a department leads to the parent route:
\* after it the current route, as parseRoute gives it, is the route with the
\* deepest set component dropped and the view one level up, also from the
\* files route of Jupeb, whose parent is the sessions route of the subject.
C30_GoBackToParent ==
    [][WentBack => currentRoute' = ParentOf(currentRoute)]_vars


====
